---- MODULE Spec2Model ----
(***************************************************************************)
(* Transaction-lifecycle model of the Shift4 payment platform:             *)
(*   - POST /api/v1/webhooks/shift4 and processWebhookEvent with its       *)
(*     per-type handlers,                                                  *)
(*   - POST /api/v1/refunds,                                               *)
(*   - POST /api/v1/checkout/online/confirm,                               *)
(*   - POST /api/v1/checkout/terminal/pay with the UTG and SkyTab drivers, *)
(*     and the status derivation of GET /checkout/terminal/status/{id}.    *)
(* Every await on the durable store or on the gateway is one step, so the  *)
(* handlers of concurrent requests interleave exactly at those points.     *)
(***************************************************************************)
EXTENDS Integers, Sequences, FiniteSets, Bags, TLC

VARIABLES
    orders,         \* order id -> [status, total, refundedTotal]
    payments,       \* sequence of payment rows; the payment id is the index
    refunds,        \* sequence of refund rows
    disputes,       \* sequence of dispute rows
    payouts,        \* payout id -> "NONE" | "PENDING" | "PAID"
    webhookEvents,  \* event id -> [stored, processed, retryCount, processingError]
    webhookReqs,    \* bag of webhook POST handlers between findUnique and upsert
    tasks,          \* bag of running processWebhookEvent calls, [ev, pc]
    refundReqs,     \* slot -> state of one POST /refunds handler
    confirmReqs,    \* slot -> state of one POST /checkout/online/confirm handler
    charges,        \* gateway: createCharge calls received, [orderId, status]
    refundCalls,    \* gateway: createRefund calls received, [chargeId, amount, status]
    deliveries,     \* event id -> number of POSTs received
    acks,           \* event id -> number of HTTP 200 responses returned
    handlerRuns,    \* event id -> number of times its handler was dispatched
    terminals,      \* terminal id -> [type, status]
    terminalTransactions,   \* sequence of session rows; the transactionId is the index
    terminalReqs,   \* slot -> state of one POST /checkout/terminal/pay and its driver call
    device,         \* slot -> the transaction as the SkyTab device holds it
    statusReqs,     \* slot -> state of one GET /checkout/terminal/status/{id} handler
    invalidReqs,    \* malformed webhook payloads received, and 400 responses to them
    pingReqs        \* slot -> state of one POST /terminals/{id}/ping handler

vars == <<orders, payments, refunds, disputes, payouts, webhookEvents, webhookReqs,
          tasks, refundReqs, confirmReqs, charges, refundCalls, deliveries, acks,
          handlerRuns, terminals, terminalTransactions, terminalReqs, device,
          statusReqs, invalidReqs, pingReqs>>

storeVars == <<orders, payments, refunds, disputes, payouts>>
webhookVars == <<webhookEvents, webhookReqs, tasks, deliveries, acks, handlerRuns,
                 invalidReqs>>
gatewayVars == <<charges, refundCalls>>
terminalVars == <<terminals, terminalTransactions, terminalReqs, device, statusReqs,
                  pingReqs>>

----------------------------------------------------------------------------
\* Bounds of the model.

\* Webhook POSTs received in one behaviour, over all event ids.
MaxDeliveries == 2
\* POST /refunds requests in one behaviour.
MaxRefundReqs == 2
\* POST /checkout/online/confirm requests in one behaviour.
MaxConfirmReqs == 2
\* Total of the one order of the model, in cents.
OrderTotal == 5000
\* POST /terminals/{id}/ping requests in one behaviour.
MaxPingReqs == 2
\* GET /checkout/terminal/status/{id} requests in one behaviour.
MaxStatusReqs == 2
\* POST /checkout/terminal/pay requests in one behaviour.
MaxTerminalReqs == 2
\* Status queries of one pollTransactionStatus call; the driver's default is 60.
maxAttempts == 3

\* body.amount of a refund request; 0 stands for an absent amount.
RefundAmounts == {0, 2000, 3000}

OrderIds == {1}
\* Order ids a confirm request may name; 2 names no order.
RequestedOrderIds == {1, 2}
\* Payment ids a refund request may name; 9 names no payment.
RequestedPaymentIds == {1, 9}
\* Terminal ids a terminal payment may name; 4 names no terminal.
RequestedTerminalIds == {1, 2, 3, 4}
\* Transaction ids a status request may name; 9 names no session.
RequestedTransactionIds == {1, 9}
\* data.card.token of an approved device transaction: one token per card.
CardTokens == {101, 102}

----------------------------------------------------------------------------
\* Webhook events the gateway can deliver.  An event id stands for one
\* notification: every delivery of the id carries the same type and payload.
\*   id       data.data.id           chargeId  data.data.chargeId
\*   refund0  data.data.refunds[0].id          status    data.data.status

Payload(type, id, chargeId, refund0, status) ==
    [type |-> type, id |-> id, chargeId |-> chargeId, refund0 |-> refund0,
     status |-> status]

EventCatalogue ==
    [ evt_succeeded        |-> Payload("charge.succeeded", 1, 0, 0, "none"),
      evt_failed           |-> Payload("charge.failed", 1, 0, 0, "none"),
      evt_captured         |-> Payload("charge.captured", 1, 0, 0, "none"),
      evt_refunded         |-> Payload("charge.refunded", 1, 0, 1, "none"),
      evt_dispute_created  |-> Payload("charge.dispute.created", 1, 1, 0, "none"),
      evt_dispute_closed   |-> Payload("charge.dispute.closed", 1, 0, 0, "won"),
      evt_refund_succeeded |-> Payload("refund.succeeded", 1, 0, 0, "none"),
      evt_refund_succeeded2 |-> Payload("refund.succeeded", 2, 0, 0, "none"),
      evt_refund_failed    |-> Payload("refund.failed", 1, 0, 0, "none"),
      evt_payout_created   |-> Payload("payout.created", 1, 0, 0, "none"),
      evt_payout_paid      |-> Payload("payout.paid", 1, 0, 0, "none"),
      evt_other            |-> Payload("customer.created", 1, 0, 0, "none") ]

EventIds == DOMAIN EventCatalogue
PayoutIds == {1}

----------------------------------------------------------------------------
\* Helpers over the store.

RECURSIVE SumAmounts(_)
SumAmounts(rows) ==
    IF rows = <<>> THEN 0 ELSE Head(rows).amount + SumAmounts(Tail(rows))

\* prisma.refund.findMany({ where: { paymentId, status: 'SUCCEEDED' } })
SucceededRefunds(rs, pid) ==
    SelectSeq(rs, LAMBDA r : r.paymentId = pid /\ r.status = "SUCCEEDED")

\* existingRefunds.reduce((sum, r) => sum + r.amount, 0)
TotalRefunded(rs, pid) == SumAmounts(SucceededRefunds(rs, pid))

\* prisma.payment.updateMany({ where: { shift4ChargeId }, data: { status } })
PaymentUpdateMany(ps, chargeId, status) ==
    [i \in DOMAIN ps |->
        IF ps[i].chargeId = chargeId THEN [ps[i] EXCEPT !.status = status] ELSE ps[i]]

\* prisma.refund.updateMany({ where: { shift4RefundId }, data: { status } })
RefundUpdateMany(rs, refundId, status) ==
    [i \in DOMAIN rs |->
        IF rs[i].refundId = refundId THEN [rs[i] EXCEPT !.status = status] ELSE rs[i]]

\* prisma.dispute.updateMany({ where: { shift4DisputeId }, data: { status } })
DisputeUpdateMany(ds, disputeId, status) ==
    [i \in DOMAIN ds |->
        IF ds[i].disputeId = disputeId THEN [ds[i] EXCEPT !.status = status] ELSE ds[i]]

\* The unique index on Dispute.shift4DisputeId.
DisputeIdTaken(ds, disputeId) == \E i \in DOMAIN ds : ds[i].disputeId = disputeId

RECURSIVE SumOver(_, _)
SumOver(f, S) ==
    IF S = {} THEN 0
    ELSE LET x == CHOOSE y \in S : TRUE IN f[x] + SumOver(f, S \ {x})

TotalDeliveries == SumOver(deliveries, EventIds)

Task(e, pc) == [ev |-> e, pc |-> pc]
HasTask(e, pc) == BagIn(Task(e, pc), tasks)
MoveTask(e, from, to) == (tasks (-) SetToBag({Task(e, from)})) (+) SetToBag({Task(e, to)})
DropTask(e, from) == tasks (-) SetToBag({Task(e, from)})

Bump(f, e) == [f EXCEPT ![e] = @ + 1]

----------------------------------------------------------------------------
\* POST /api/v1/webhooks/shift4

\* The test of line 34 with the processed flag read the wrong way round.
StoredUnprocessed(rec) == rec.stored /\ ~rec.processed

\* Line 34: existing && existing.processed
AlreadyProcessed(rec) == rec.stored /\ rec.processed

\* Lines 27-37: look the event up, and acknowledge at once when its record is
\* already processed.
WebhookLookup(e) ==
    /\ TotalDeliveries < MaxDeliveries
    /\ deliveries' = Bump(deliveries, e)
    /\ IF AlreadyProcessed(webhookEvents[e])
       THEN /\ acks' = Bump(acks, e)
            /\ UNCHANGED webhookReqs
       ELSE /\ webhookReqs' = webhookReqs (+) SetToBag({e})
            /\ UNCHANGED acks
    /\ UNCHANGED <<storeVars, gatewayVars, webhookEvents, tasks, handlerRuns,
                   refundReqs, confirmReqs, terminalVars>>

\* Lines 18-37 for the well-formed payload of event e.
WebhookReceive(e) ==
    /\ WebhookLookup(e)
    /\ UNCHANGED invalidReqs

\* The test of line 23 looking at the event id only.
HasEventId(payload) == payload.id # "none"

\* Line 23: eventId && eventType.
ValidPayload(payload) == payload.id # "none" /\ payload.type # "none"

\* Lines 18-37 for any payload: one that lacks the id or the type is answered
\* 400 (lines 23-25) and nothing else happens; any other is looked up.
WebhookReceivePayload(payload) ==
    /\ invalidReqs.received < MaxDeliveries
    /\ invalidReqs' =
           [received |-> invalidReqs.received
                             + (IF payload.id = "none" \/ payload.type = "none" THEN 1 ELSE 0),
            rejected |-> invalidReqs.rejected
                             + (IF ValidPayload(payload) THEN 0 ELSE 1)]
    /\ IF ValidPayload(payload)
       THEN WebhookLookup(payload.id)
       ELSE UNCHANGED <<storeVars, gatewayVars, webhookEvents, webhookReqs, tasks,
                        deliveries, acks, handlerRuns, refundReqs, confirmReqs,
                        terminalVars>>

\* Lines 40-52 as a plain create: a fresh record whatever is stored.
CreateWebhookEvent(rec) ==
    [stored |-> TRUE, processed |-> FALSE, retryCount |-> 0,
     processingError |-> FALSE]

\* The upsert of lines 40-52: create the record, or count a retry on the
\* record that exists.
UpsertWebhookEvent(rec) ==
    IF rec.stored
    THEN [rec EXCEPT !.retryCount = @ + 1]
    ELSE [stored |-> TRUE, processed |-> FALSE, retryCount |-> 0,
          processingError |-> FALSE]

\* Lines 40-61 with the response held back until processing has finished.
WebhookStoreAwaiting(e) ==
    /\ BagIn(e, webhookReqs)
    /\ webhookReqs' = webhookReqs (-) SetToBag({e})
    /\ webhookEvents' = [webhookEvents EXCEPT ![e] = UpsertWebhookEvent(@)]
    /\ tasks' = tasks (+) SetToBag({Task(e, "handle")})
    /\ UNCHANGED <<storeVars, gatewayVars, deliveries, acks, handlerRuns, refundReqs,
                   confirmReqs, terminalVars, invalidReqs>>

\* Lines 40-61: store the raw event, start processWebhookEvent without
\* awaiting it, and return 200.
WebhookStore(e) ==
    /\ BagIn(e, webhookReqs)
    /\ webhookReqs' = webhookReqs (-) SetToBag({e})
    /\ webhookEvents' = [webhookEvents EXCEPT ![e] = UpsertWebhookEvent(@)]
    /\ tasks' = tasks (+) SetToBag({Task(e, "handle")})
    /\ acks' = Bump(acks, e)
    /\ UNCHANGED <<storeVars, gatewayVars, deliveries, handlerRuns, refundReqs,
                   confirmReqs, terminalVars, invalidReqs>>

----------------------------------------------------------------------------
\* processWebhookEvent

\* Lines 84-135: re-read the stored event and dispatch on its type.  The row
\* is never deleted and its payload never changes, so the read finds what the
\* delivery carried; the task then runs the handler of the event's type.
Dispatch(e, type) ==
    /\ HasTask(e, "handle")
    /\ webhookEvents[e].stored
    /\ EventCatalogue[e].type = type
    /\ handlerRuns' = Bump(handlerRuns, e)

HandlerFrame == <<gatewayVars, webhookEvents, webhookReqs, deliveries, acks,
                  refundReqs, confirmReqs, terminalVars, invalidReqs>>

\* Lines 167-177 writing the status of an authorization.
HandleChargeSucceededAsAuthorized(e) ==
    /\ Dispatch(e, "charge.succeeded")
    /\ payments' = PaymentUpdateMany(payments, EventCatalogue[e].id, "AUTHORIZED")
    /\ tasks' = MoveTask(e, "handle", "mark")
    /\ UNCHANGED <<orders, refunds, disputes, payouts, HandlerFrame>>

\* Lines 167-177.
HandleChargeSucceeded(e) ==
    /\ Dispatch(e, "charge.succeeded")
    /\ payments' = PaymentUpdateMany(payments, EventCatalogue[e].id, "CAPTURED")
    /\ tasks' = MoveTask(e, "handle", "mark")
    /\ UNCHANGED <<orders, refunds, disputes, payouts, HandlerFrame>>

\* Lines 179-188.
HandleChargeFailed(e) ==
    /\ Dispatch(e, "charge.failed")
    /\ payments' = PaymentUpdateMany(payments, EventCatalogue[e].id, "FAILED")
    /\ tasks' = MoveTask(e, "handle", "mark")
    /\ UNCHANGED <<orders, refunds, disputes, payouts, HandlerFrame>>

\* Lines 190-202.
HandleChargeCaptured(e) ==
    /\ Dispatch(e, "charge.captured")
    /\ payments' = PaymentUpdateMany(payments, EventCatalogue[e].id, "CAPTURED")
    /\ tasks' = MoveTask(e, "handle", "mark")
    /\ UNCHANGED <<orders, refunds, disputes, payouts, HandlerFrame>>

\* Lines 204-212: the payment update of handleChargeRefunded.
HandleChargeRefunded(e) ==
    /\ Dispatch(e, "charge.refunded")
    /\ payments' = PaymentUpdateMany(payments, EventCatalogue[e].id, "REFUNDED")
    /\ tasks' = MoveTask(e, "handle",
                         IF EventCatalogue[e].refund0 # 0 THEN "refund" ELSE "mark")
    /\ UNCHANGED <<orders, refunds, disputes, payouts, HandlerFrame>>

\* Lines 214-226: the refund update of handleChargeRefunded.
HandleChargeRefundedRefund(e) ==
    /\ HasTask(e, "refund")
    /\ refunds' = RefundUpdateMany(refunds, EventCatalogue[e].refund0, "SUCCEEDED")
    /\ tasks' = MoveTask(e, "refund", "mark")
    /\ UNCHANGED <<orders, payments, disputes, payouts, HandlerFrame, handlerRuns>>

\* Lines 228-240.
HandleRefundSucceeded(e) ==
    /\ Dispatch(e, "refund.succeeded")
    /\ refunds' = RefundUpdateMany(refunds, EventCatalogue[e].id, "SUCCEEDED")
    /\ tasks' = MoveTask(e, "handle", "mark")
    /\ UNCHANGED <<orders, payments, disputes, payouts, HandlerFrame>>

\* Lines 242-254.
HandleRefundFailed(e) ==
    /\ Dispatch(e, "refund.failed")
    /\ refunds' = RefundUpdateMany(refunds, EventCatalogue[e].id, "FAILED")
    /\ tasks' = MoveTask(e, "handle", "mark")
    /\ UNCHANGED <<orders, payments, disputes, payouts, HandlerFrame>>

\* Lines 256-268: find the payment of the disputed charge; return when there
\* is none.
HandleDisputeCreated(e) ==
    /\ Dispatch(e, "charge.dispute.created")
    /\ tasks' = MoveTask(e, "handle",
           IF \E i \in DOMAIN payments : payments[i].chargeId = EventCatalogue[e].chargeId
           THEN "create" ELSE "mark")
    /\ UNCHANGED <<storeVars, HandlerFrame>>

\* Lines 270-287 with the disputed payment marked as well.
HandleDisputeCreatedMarkingPayment(e) ==
    /\ HasTask(e, "create")
    /\ IF DisputeIdTaken(disputes, EventCatalogue[e].id)
       THEN /\ tasks' = MoveTask(e, "create", "catch")
            /\ UNCHANGED <<disputes, payments>>
       ELSE /\ disputes' = Append(disputes,
                   [disputeId |-> EventCatalogue[e].id,
                    chargeId |-> EventCatalogue[e].chargeId,
                    status |-> "NEEDS_RESPONSE"])
            /\ payments' = PaymentUpdateMany(payments, EventCatalogue[e].chargeId,
                                             "DISPUTED")
            /\ tasks' = MoveTask(e, "create", "mark")
    /\ UNCHANGED <<orders, refunds, payouts, HandlerFrame, handlerRuns>>

\* Lines 270-287: insert the dispute row; the insert throws on a dispute id
\* that is already stored (unique index).
HandleDisputeCreatedInsert(e) ==
    /\ HasTask(e, "create")
    /\ IF DisputeIdTaken(disputes, EventCatalogue[e].id)
       THEN /\ tasks' = MoveTask(e, "create", "catch")
            /\ UNCHANGED disputes
       ELSE /\ disputes' = Append(disputes,
                   [disputeId |-> EventCatalogue[e].id,
                    chargeId |-> EventCatalogue[e].chargeId,
                    status |-> "NEEDS_RESPONSE"])
            /\ tasks' = MoveTask(e, "create", "mark")
    /\ UNCHANGED <<orders, payments, refunds, payouts, HandlerFrame, handlerRuns>>

\* Lines 289-303.
HandleDisputeClosed(e) ==
    /\ Dispatch(e, "charge.dispute.closed")
    /\ disputes' = DisputeUpdateMany(disputes, EventCatalogue[e].id,
                       IF EventCatalogue[e].status = "won" THEN "WON" ELSE "LOST")
    /\ tasks' = MoveTask(e, "handle", "mark")
    /\ UNCHANGED <<orders, payments, refunds, payouts, HandlerFrame>>

\* Lines 128-131 and 305-327: upsert of the payout; create and update set the
\* same status.
HandlePayout(e) ==
    /\ \E type \in {"payout.created", "payout.paid"} : Dispatch(e, type)
    /\ payouts' = [payouts EXCEPT ![EventCatalogue[e].id] =
                       IF EventCatalogue[e].type = "payout.paid" THEN "PAID" ELSE "PENDING"]
    /\ tasks' = MoveTask(e, "handle", "mark")
    /\ UNCHANGED <<orders, payments, refunds, disputes, HandlerFrame>>

HandledTypes ==
    {"charge.succeeded", "charge.failed", "charge.captured", "charge.refunded",
     "charge.dispute.created", "charge.dispute.closed", "refund.succeeded",
     "refund.failed", "payout.created", "payout.paid"}

\* Lines 133-134: the default branch only logs.
HandleUnhandled(e) ==
    /\ EventCatalogue[e].type \notin HandledTypes
    /\ Dispatch(e, EventCatalogue[e].type)
    /\ tasks' = MoveTask(e, "handle", "mark")
    /\ UNCHANGED <<storeVars, HandlerFrame>>

\* Lines 137-146: mark the event processed.
MarkProcessed(e) ==
    /\ HasTask(e, "mark")
    /\ webhookEvents' = [webhookEvents EXCEPT ![e].processed = TRUE]
    /\ tasks' = DropTask(e, "mark")
    /\ UNCHANGED <<storeVars, gatewayVars, webhookReqs, deliveries, acks, handlerRuns,
                   refundReqs, confirmReqs, terminalVars, invalidReqs>>

\* Lines 147-162: record the error on the event and rethrow; the caller's
\* .catch of line 56 logs it.
ProcessCatch(e) ==
    /\ HasTask(e, "catch")
    /\ webhookEvents' = [webhookEvents EXCEPT ![e].processingError = TRUE]
    /\ tasks' = DropTask(e, "catch")
    /\ UNCHANGED <<storeVars, gatewayVars, webhookReqs, deliveries, acks, handlerRuns,
                   refundReqs, confirmReqs, terminalVars, invalidReqs>>

\* A store call of a handler rejects (lines 167-327 await the store and catch
\* nothing): the error reaches the catch of processWebhookEvent before the
\* handler has written anything.
StoreCallFails(e) ==
    /\ HasTask(e, "handle")
    /\ webhookEvents[e].stored
    /\ EventCatalogue[e].type \in HandledTypes
    /\ tasks' = MoveTask(e, "handle", "catch")
    /\ UNCHANGED <<storeVars, HandlerFrame, handlerRuns>>

----------------------------------------------------------------------------
\* POST /api/v1/refunds

NoPayment ==
    [orderId |-> 0, chargeId |-> 0, amount |-> 0, status |-> "none",
     methodType |-> "none", transactionId |-> 0]

IdleRefundReq ==
    [pc |-> "idle", paymentId |-> 0, amount |-> 0, payment |-> NoPayment, orderTotal |-> 0,
     totalRefunded |-> 0, refundAmount |-> 0, refundId |-> 0, result |-> "none",
     resp |-> 0]

\* A handler that returned: the slot keeps the request, the amount it asked
\* the gateway for and the response code; the other locals are gone.
RefundDone(r, code) ==
    [IdleRefundReq EXCEPT !.pc = "done", !.paymentId = r.paymentId,
                          !.amount = r.amount, !.refundAmount = r.refundAmount,
                          !.resp = code]

\* The status test of lines 109-111.
RefundBlockedByStatus(status) == status = "REFUNDED"

\* Lines 97-111: read the payment with its order; 404 when there is none,
\* 400 when the payment is already refunded.  Slots are taken in order.
RefundStart(i, pid, amt) ==
    /\ refundReqs[i].pc = "idle"
    /\ \A j \in 1..(i - 1) : refundReqs[j].pc # "idle"
    /\ refundReqs' = [refundReqs EXCEPT ![i] =
         IF pid \notin DOMAIN payments
         THEN RefundDone([@ EXCEPT !.paymentId = pid, !.amount = amt], 404)
         ELSE IF RefundBlockedByStatus(payments[pid].status)
         THEN RefundDone([@ EXCEPT !.paymentId = pid, !.amount = amt,
                                   !.payment = payments[pid]], 400)
         ELSE [@ EXCEPT !.pc = "validate", !.paymentId = pid, !.amount = amt,
                        !.payment = payments[pid],
                        !.orderTotal = orders[payments[pid].orderId].total]]
    /\ UNCHANGED <<storeVars, gatewayVars, webhookVars, confirmReqs, terminalVars>>

\* Line 113: body.amount || payment.amount
RefundAmountOf(amt, paymentAmount) == IF amt # 0 THEN amt ELSE paymentAmount

\* The test of line 122 without the refunds made so far.
ExceedsPaymentAmount(refundAmount, paymentAmount, totalRefunded) ==
    refundAmount > paymentAmount

\* Line 122: refundAmount > availableToRefund
ExceedsAvailable(refundAmount, paymentAmount, totalRefunded) ==
    refundAmount > paymentAmount - totalRefunded

\* Line 130: the payment methods refunded through the gateway.
IsOnlineMethod(methodType) == methodType \in {"CARD_ONLINE", "SAVED_CARD"}

\* Lines 113-131 and 187-190: sum the SUCCEEDED refunds, reject an amount above
\* what is left with 400, and answer 501 for a terminal payment.
RefundValidate(i) ==
    /\ refundReqs[i].pc = "validate"
    /\ LET r == refundReqs[i]
           amount == RefundAmountOf(r.amount, r.payment.amount)
           total == TotalRefunded(refunds, r.paymentId)
       IN refundReqs' = [refundReqs EXCEPT ![i] =
            IF ExceedsAvailable(amount, r.payment.amount, total)
            THEN RefundDone([@ EXCEPT !.refundAmount = amount,
                                      !.totalRefunded = total], 400)
            ELSE IF ~IsOnlineMethod(r.payment.methodType)
            THEN RefundDone([@ EXCEPT !.refundAmount = amount,
                                      !.totalRefunded = total], 501)
            ELSE [@ EXCEPT !.pc = "gateway", !.refundAmount = amount,
                           !.totalRefunded = total]]
    /\ UNCHANGED <<storeVars, gatewayVars, webhookVars, confirmReqs, terminalVars>>

\* Lines 133-141 and 191-194: shift4.createRefund.  The gateway answers
\* 'successful', another status (mapped to 'pending'), or with an error, which
\* the handler turns into a 500 response.
RefundGateway(i, outcome) ==
    /\ refundReqs[i].pc = "gateway"
    /\ refundCalls' = Append(refundCalls,
           [chargeId |-> refundReqs[i].payment.chargeId,
            amount |-> refundReqs[i].refundAmount, status |-> outcome])
    /\ refundReqs' = [refundReqs EXCEPT ![i] =
           IF outcome = "error"
           THEN RefundDone(@, 500)
           ELSE [@ EXCEPT !.pc = "create", !.refundId = Len(refundCalls) + 1,
                          !.result = outcome]]
    /\ UNCHANGED <<storeVars, charges, webhookVars, confirmReqs, terminalVars>>

\* Line 151: the status the refund row is created with.
RefundRowStatus(result) == IF result = "succeeded" THEN "SUCCEEDED" ELSE "PENDING"

\* Lines 143-156: create the refund row.
RefundCreate(i) ==
    /\ refundReqs[i].pc = "create"
    /\ refunds' = Append(refunds,
           [paymentId |-> refundReqs[i].paymentId, refundId |-> refundReqs[i].refundId,
            amount |-> refundReqs[i].refundAmount,
            status |-> RefundRowStatus(refundReqs[i].result)])
    /\ refundReqs' = [refundReqs EXCEPT ![i].pc = "updatePayment"]
    /\ UNCHANGED <<orders, payments, disputes, payouts, gatewayVars, webhookVars,
                   confirmReqs, terminalVars>>

\* Lines 159-167 and 175-178: the status after a refund that brings the
\* refunded total to newTotal.
StatusAfterRefund(newTotal, limit) ==
    IF newTotal >= limit THEN "REFUNDED" ELSE "PARTIALLY_REFUNDED"

\* Lines 158-168: set the payment's status from the total read at validation.
RefundUpdatePayment(i) ==
    /\ refundReqs[i].pc = "updatePayment"
    /\ LET r == refundReqs[i] IN
       payments' = [payments EXCEPT ![r.paymentId].status =
           StatusAfterRefund(r.totalRefunded + r.refundAmount, r.payment.amount)]
    /\ refundReqs' = [refundReqs EXCEPT ![i].pc = "updateOrder"]
    /\ UNCHANGED <<orders, refunds, disputes, payouts, gatewayVars, webhookVars,
                   confirmReqs, terminalVars>>

\* Lines 170-184: add the amount to the order's refundedTotal, set the order's
\* status, and return the refund with 200.
RefundUpdateOrder(i) ==
    /\ refundReqs[i].pc = "updateOrder"
    /\ LET r == refundReqs[i] IN
       orders' = [orders EXCEPT ![r.payment.orderId] =
           [@ EXCEPT !.refundedTotal = @ + r.refundAmount,
                     !.status = StatusAfterRefund(r.totalRefunded + r.refundAmount,
                                                  r.orderTotal)]]
    /\ refundReqs' = [refundReqs EXCEPT ![i] = RefundDone(@, 200)]
    /\ UNCHANGED <<payments, refunds, disputes, payouts, gatewayVars, webhookVars,
                   confirmReqs, terminalVars>>

----------------------------------------------------------------------------
\* POST /api/v1/checkout/online/confirm

\* errors.ts: a PaymentError as its handlers see it.
TypedError(name, statusCode, retryable) ==
    [name |-> name, statusCode |-> statusCode, retryable |-> retryable]

NoError == TypedError("none", 0, FALSE)

\* handleError with a declined card classified like a fault of the gateway.
HandleErrorRetryingDeclines(status) ==
    IF status \in {0, 402, 500, 502, 503, 504} THEN TypedError("NetworkError", 503, TRUE)
    ELSE IF status = 400 THEN TypedError("InvalidRequestError", 400, FALSE)
    ELSE IF status = 401 THEN TypedError("AuthenticationError", 401, FALSE)
    ELSE IF status = 429 THEN TypedError("RateLimitError", 429, TRUE)
    ELSE TypedError("PaymentError", status, FALSE)

\* Shift4Adapter.handleError, lines 310-356, with the constructors of
\* errors.ts; status 0 stands for a request that got no response.
HandleError(status) ==
    IF status = 0 THEN TypedError("NetworkError", 503, TRUE)
    ELSE IF status = 400 THEN TypedError("InvalidRequestError", 400, FALSE)
    ELSE IF status = 401 THEN TypedError("AuthenticationError", 401, FALSE)
    ELSE IF status = 402 THEN TypedError("CardError", 402, FALSE)
    ELSE IF status = 429 THEN TypedError("RateLimitError", 429, TRUE)
    ELSE IF status \in {500, 502, 503, 504} THEN TypedError("NetworkError", 503, TRUE)
    ELSE TypedError("PaymentError", status, FALSE)

\* mapChargeStatus reading every status but 'failed' as a success.
MapChargeStatusUnlessFailed(status) ==
    IF status = "failed" THEN "failed" ELSE "succeeded"

\* Shift4Adapter.mapChargeStatus, lines 297-305.
MapChargeStatus(status) ==
    IF status = "successful" THEN "succeeded"
    ELSE IF status = "failed" THEN "failed"
    ELSE "pending"

\* The test of lines 128-134 accepting a request without credentials.
AnyCredentials(cred) == TRUE

\* createCharge, lines 128-134: request.token or request.customerId is set.
HasCredentials(cred) == cred \in {"token", "customerId"}

IdleConfirmReq ==
    [pc |-> "idle", orderId |-> 0, credentials |-> "none", total |-> 0, chargeId |-> 0,
     result |-> "none", paymentId |-> 0, error |-> NoError, resp |-> 0]

\* A handler that returned: the slot keeps the request, the payment it created,
\* the error it caught and the response code; the other locals are gone.
ConfirmDone(c, code) ==
    [IdleConfirmReq EXCEPT !.pc = "done", !.orderId = c.orderId,
                           !.credentials = c.credentials, !.paymentId = c.paymentId,
                           !.error = c.error, !.resp = code]

\* Line 37 letting an order of any status but CANCELLED be paid.
OrderNotCancelled(status) == status # "CANCELLED"

\* Line 37: the order statuses that can be paid.
OrderPayable(status) == status \in {"DRAFT", "PENDING_PAYMENT"}

\* Lines 26-39: read the order; 404 when there is none, 400 when it cannot be
\* paid.  Slots are taken in order.
\* The request carries a token, only a customerId, or neither (lines 17-22:
\* the body is not validated).
ConfirmReceive(i, oid, cred) ==
    /\ confirmReqs[i].pc = "idle"
    /\ \A j \in 1..(i - 1) : confirmReqs[j].pc # "idle"
    /\ confirmReqs' = [confirmReqs EXCEPT ![i] =
         LET c == [@ EXCEPT !.orderId = oid, !.credentials = cred] IN
         IF oid \notin DOMAIN orders
         THEN ConfirmDone(c, 404)
         ELSE IF ~OrderPayable(orders[oid].status)
         THEN ConfirmDone(c, 400)
         ELSE [c EXCEPT !.pc = "charge", !.total = orders[oid].total]]
    /\ UNCHANGED <<storeVars, gatewayVars, webhookVars, refundReqs, terminalVars>>

\* A request that carries a card token.
ConfirmStart(i, oid) == ConfirmReceive(i, oid, "token")

\* A charge as the gateway holds it: the status it reported, the adapter's
\* reading of it, and the HTTP status of the answer.
ChargeRow(orderId, gatewayStatus, status, http) ==
    [orderId |-> orderId, gatewayStatus |-> gatewayStatus, status |-> status,
     http |-> http]

\* Lines 41-57: shift4.createCharge with a freshly generated key that is not
\* sent to the gateway.  The gateway creates a charge and reports its status;
\* the adapter maps it (adapter lines 140-147).
ConfirmCharge(i, gatewayStatus) ==
    /\ confirmReqs[i].pc = "charge"
    /\ HasCredentials(confirmReqs[i].credentials)
    /\ charges' = Append(charges,
           ChargeRow(confirmReqs[i].orderId, gatewayStatus,
                     MapChargeStatus(gatewayStatus), 200))
    /\ confirmReqs' = [confirmReqs EXCEPT ![i] =
           [@ EXCEPT !.pc = "create", !.chargeId = Len(charges) + 1,
                     !.result = MapChargeStatus(gatewayStatus)]]
    /\ UNCHANGED <<storeVars, refundCalls, webhookVars, refundReqs, terminalVars>>

\* Lines 41-57 and 107-110 when the request to the gateway fails with HTTP
\* status http (0: no response): the adapter's interceptor throws the typed
\* error (adapter lines 84-86) and the handler answers with its status code
\* (errorResponse, part_003 lines 15-49).
ConfirmChargeError(i, http) ==
    /\ confirmReqs[i].pc = "charge"
    /\ HasCredentials(confirmReqs[i].credentials)
    /\ charges' = Append(charges, ChargeRow(confirmReqs[i].orderId, "none", "error", http))
    /\ confirmReqs' = [confirmReqs EXCEPT ![i] =
           ConfirmDone([@ EXCEPT !.error = HandleError(http)],
                       HandleError(http).statusCode)]
    /\ UNCHANGED <<storeVars, refundCalls, webhookVars, refundReqs, terminalVars>>

\* createCharge with neither token nor customerId (adapter lines 128-134):
\* InvalidRequestError is thrown before client.post; nothing reaches the
\* gateway and the handler answers 400.
ConfirmChargeRejected(i) ==
    /\ confirmReqs[i].pc = "charge"
    /\ ~HasCredentials(confirmReqs[i].credentials)
    /\ confirmReqs' = [confirmReqs EXCEPT ![i] =
           ConfirmDone([@ EXCEPT !.error = TypedError("InvalidRequestError", 400, FALSE)],
                       400)]
    /\ UNCHANGED <<storeVars, gatewayVars, webhookVars, refundReqs, terminalVars>>

\* Line 67: the status the payment row is created with.
PaymentRowStatus(result) == IF result = "succeeded" THEN "CAPTURED" ELSE "FAILED"

\* Lines 59-78: create the payment row.
ConfirmCreatePayment(i) ==
    /\ confirmReqs[i].pc = "create"
    /\ payments' = Append(payments,
           [orderId |-> confirmReqs[i].orderId, chargeId |-> confirmReqs[i].chargeId,
            amount |-> confirmReqs[i].total,
            status |-> PaymentRowStatus(confirmReqs[i].result),
            methodType |-> "CARD_ONLINE", transactionId |-> 0])
    /\ confirmReqs' = [confirmReqs EXCEPT ![i] =
           [@ EXCEPT !.pc = "updateOrder", !.paymentId = Len(payments) + 1]]
    /\ UNCHANGED <<orders, refunds, disputes, payouts, gatewayVars, webhookVars,
                   refundReqs, terminalVars>>

\* Line 84: the order status after the charge.
OrderStatusAfterCharge(result) ==
    IF result = "succeeded" THEN "PAID" ELSE "PENDING_PAYMENT"

\* Lines 80-106: set the order's status and return the payment with 200.
ConfirmUpdateOrder(i) ==
    /\ confirmReqs[i].pc = "updateOrder"
    /\ orders' = [orders EXCEPT ![confirmReqs[i].orderId].status =
                      OrderStatusAfterCharge(confirmReqs[i].result)]
    /\ confirmReqs' = [confirmReqs EXCEPT ![i] = ConfirmDone(@, 200)]
    /\ UNCHANGED <<payments, refunds, disputes, payouts, gatewayVars, webhookVars,
                   refundReqs, terminalVars>>

----------------------------------------------------------------------------
\* POST /api/v1/checkout/terminal/pay and the terminal drivers

\* The terminals of the store: a SkyTab and a UTG terminal in service and a
\* SkyTab terminal out of service.
TerminalTable ==
    [t \in {1, 2, 3} |->
        [type |-> IF t = 2 THEN "UTG" ELSE "SKYTAB",
         status |-> IF t = 3 THEN "OFFLINE" ELSE "ACTIVE"]]

\* A PaymentResult with no field set.
NoResult ==
    [approved |-> FALSE, responseCode |-> "none", responseMessage |-> "none",
     token |-> 0, totalAmount |-> 0, error |-> "none", errorCode |-> "none"]

\* The transaction as the device reports it on GET /api/v1/transactions/{id}.
DeviceData(status, code, message, token, total) ==
    [status |-> status, response_code |-> code, response_message |-> message,
     token |-> token, total_amount |-> total]

NoDeviceData == DeviceData("none", "none", "none", 0, 0)

IdleTerminalReq ==
    [pc |-> "idle", terminalId |-> 0, type |-> "none", orderId |-> 0, amount |-> 0,
     transactionId |-> 0, referenceId |-> 0, attempt |-> 0, lastStatus |-> "none",
     queryFailed |-> FALSE,
     timedOut |-> FALSE, result |-> NoResult, cause |-> "none", error |-> "none",
     message |-> "none", retryable |-> FALSE, cancelRequested |-> FALSE, resp |-> 0]

\* A request whose handler and driver call have ended: the slot keeps the
\* request, the session it created, the response code and how the poll went;
\* the other locals are gone.
TerminalDone(r) ==
    [IdleTerminalReq EXCEPT !.pc = "done", !.terminalId = r.terminalId,
                            !.type = r.type, !.orderId = r.orderId,
                            !.transactionId = r.transactionId, !.attempt = r.attempt,
                            !.lastStatus = r.lastStatus, !.timedOut = r.timedOut,
                            !.resp = r.resp]

\* The row terminalTransaction.create writes (lines 146-159): no outcome yet.
NewSession(terminalId, orderId, amount) ==
    [terminalId |-> terminalId, orderId |-> orderId, amount |-> amount,
     approved |-> FALSE, responseCode |-> "none", responseMessage |-> "none",
     completedAt |-> FALSE]

TerminalFrame == <<payments, refunds, disputes, payouts, gatewayVars, webhookVars,
                   refundReqs, confirmReqs, terminals, statusReqs, pingReqs>>

\* Lines 112-125: read the terminal; 404 when there is none, 400 when it is
\* not ACTIVE.  Slots are taken in order.
TerminalPayStart(i, tid, oid, amt) ==
    /\ terminalReqs[i].pc = "idle"
    /\ \A j \in 1..(i - 1) : terminalReqs[j].pc # "idle"
    /\ terminalReqs' = [terminalReqs EXCEPT ![i] =
         LET r == [@ EXCEPT !.terminalId = tid, !.orderId = oid, !.amount = amt] IN
         IF tid \notin DOMAIN terminals
         THEN TerminalDone([r EXCEPT !.resp = 404])
         ELSE IF terminals[tid].status # "ACTIVE"
         THEN TerminalDone([r EXCEPT !.resp = 400])
         ELSE [r EXCEPT !.pc = "readOrder", !.type = terminals[tid].type]]
    /\ UNCHANGED <<orders, terminalTransactions, device, TerminalFrame>>

\* Lines 127-134: read the order; 404 when there is none.
TerminalPayOrder(i) ==
    /\ terminalReqs[i].pc = "readOrder"
    /\ terminalReqs' = [terminalReqs EXCEPT ![i] =
         IF @.orderId \notin DOMAIN orders
         THEN TerminalDone([@ EXCEPT !.resp = 404])
         ELSE [@ EXCEPT !.pc = "create"]]
    /\ UNCHANGED <<orders, terminalTransactions, device, TerminalFrame>>

\* const transactionId = nanoid() at the top of startPayment (part_004 390,
\* shift4-adapter.ts 466): the driver draws its own id, which it sends to the
\* device as TransactionId or reference_id; the id the route drew is not among
\* the arguments of startPayment (route lines 165-172).  nanoid() returns no
\* id twice: the ids the route draws are the positive numbers, the id the
\* driver draws during the payment of session t is written 0 - t.
DriverTransactionId(t) == 0 - t

\* Lines 136-172 and 240-243 without the create: the driver is called and the
\* transactionId returned while no session row carries it.
TerminalPayRespondUnsaved(i) ==
    /\ terminalReqs[i].pc = "create"
    /\ terminalReqs' = [terminalReqs EXCEPT ![i] =
           [@ EXCEPT !.pc = "post", !.transactionId = Len(terminalTransactions) + 1,
                     !.referenceId = DriverTransactionId(Len(terminalTransactions) + 1),
                     !.resp = 200]]
    /\ UNCHANGED <<orders, terminalTransactions, device, TerminalFrame>>

\* Lines 136-172 and 240-243: create the session row under a fresh
\* transactionId, call startPayment without awaiting it (the driver runs up to
\* its request to the device), and return 200 with status 'pending'.
TerminalPayCreate(i) ==
    /\ terminalReqs[i].pc = "create"
    /\ terminalTransactions' = Append(terminalTransactions,
           NewSession(terminalReqs[i].terminalId, terminalReqs[i].orderId,
                      terminalReqs[i].amount))
    /\ terminalReqs' = [terminalReqs EXCEPT ![i] =
           [@ EXCEPT !.pc = "post", !.transactionId = Len(terminalTransactions) + 1,
                     !.referenceId = DriverTransactionId(Len(terminalTransactions) + 1),
                     !.resp = 200]]
    /\ UNCHANGED <<orders, device, TerminalFrame>>

\* The catch of startPayment (shift4-adapter.ts 515-539, part_004 431-452): an
\* axios error with code ECONNREFUSED or ETIMEDOUT becomes TerminalOfflineError,
\* ECONNABORTED becomes TerminalTimeoutError, and everything else, an error
\* that is not an axios error included, becomes a TerminalError carrying the
\* message of its cause (the driver's name in front of it is left out).
\* errors.ts 60-87: TerminalOfflineError and TerminalTimeoutError are
\* retryable, TerminalError is not.
StartPaymentError(cause) ==
    IF cause \in {"ECONNREFUSED", "ETIMEDOUT"}
    THEN [name |-> "TerminalOfflineError", message |-> "Terminal is offline",
          retryable |-> TRUE]
    ELSE IF cause = "ECONNABORTED"
    THEN [name |-> "TerminalTimeoutError", message |-> "Terminal timed out",
          retryable |-> TRUE]
    ELSE [name |-> "TerminalError",
          message |-> IF cause = "TerminalTimeoutError"
                      THEN "payment failed: Terminal timed out"
                      ELSE "payment failed: Request failed",
          retryable |-> FALSE]

\* startPayment rejects with the error its catch makes of the cause.
Rejected(r, cause) ==
    [r EXCEPT !.pc = "catch", !.cause = cause,
              !.error = StartPaymentError(cause).name,
              !.message = StartPaymentError(cause).message,
              !.retryable = StartPaymentError(cause).retryable]

\* Lines 499-503 of the SkyTab driver: the request that starts the transaction
\* on the device; code is "ok" or the code of the axios error.
SkyTabPost(i, code) ==
    /\ terminalReqs[i].pc = "post"
    /\ terminalReqs[i].type = "SKYTAB"
    /\ IF code = "ok"
       THEN /\ device' = [device EXCEPT ![i] =
                   DeviceData("pending", "none", "none", 0, terminalReqs[i].amount)]
            /\ terminalReqs' = [terminalReqs EXCEPT ![i].pc = "poll"]
       ELSE /\ terminalReqs' = [terminalReqs EXCEPT ![i] = Rejected(@, code)]
            /\ UNCHANGED device
    /\ UNCHANGED <<orders, terminalTransactions, TerminalFrame>>

\* The cardholder or the issuer decides a pending transaction on the device.
DeviceApproves(i, token) ==
    /\ device[i].status = "pending"
    /\ device' = [device EXCEPT ![i] =
           DeviceData("approved", "00", "APPROVED", token, @.total_amount)]
    /\ UNCHANGED <<orders, terminalTransactions, terminalReqs, TerminalFrame>>

\* response_code and response_message of a transaction the device did not
\* approve.
DeviceReason(status) ==
    IF status = "declined" THEN <<"05", "DO NOT HONOR">>
    ELSE IF status = "cancelled" THEN <<"CA", "CANCELLED">>
    ELSE <<"ER", "DEVICE ERROR">>

DeviceRefuses(i, status) ==
    /\ device[i].status = "pending"
    /\ device' = [device EXCEPT ![i] =
           DeviceData(status, DeviceReason(status)[1], DeviceReason(status)[2], 0,
                      @.total_amount)]
    /\ UNCHANGED <<orders, terminalTransactions, terminalReqs, TerminalFrame>>

\* mapStatus of the SkyTab driver, lines 797-810.
MapStatus(status) ==
    IF status \in {"pending", "processing"} THEN "pending"
    ELSE IF status \in {"approved", "declined", "cancelled", "error"} THEN status
    ELSE "error"

\* parseTransactionData, lines 762-792.
ParseTransactionData(data) ==
    [approved |-> data.status = "approved",
     responseCode |-> data.response_code,
     responseMessage |-> data.response_message,
     token |-> data.token,
     totalAmount |-> data.total_amount,
     error |-> IF data.status = "approved" THEN "none" ELSE data.response_message,
     errorCode |-> IF data.status = "approved" THEN "none" ELSE data.response_code]

\* getStatus, lines 545-570: the mapped status, with the parsed transaction
\* only when the device approved it; a failed request is caught and reported
\* as status 'error' with the error's message.
GetStatus(data, failed) ==
    IF failed
    THEN [status |-> "error", hasResult |-> FALSE, result |-> NoResult,
          error |-> "Network Error"]
    ELSE [status |-> MapStatus(data.status),
          hasResult |-> data.status = "approved",
          result |-> IF data.status = "approved" THEN ParseTransactionData(data)
                     ELSE NoResult,
          error |-> "none"]

\* Lines 724-729: the statuses that end the poll.
PollComplete(status) == status \in {"approved", "declined", "cancelled", "error"}

\* status.status.toUpperCase(), line 742.
ToUpperCase(status) ==
    IF status = "declined" THEN "DECLINED"
    ELSE IF status = "cancelled" THEN "CANCELLED"
    ELSE IF status = "error" THEN "ERROR"
    ELSE "APPROVED"

\* Lines 730-743: what the poll returns on a complete status.
PollResult(status, expectedAmount) ==
    IF status.hasResult
    THEN status.result
    ELSE [NoResult EXCEPT
            !.totalAmount = expectedAmount,
            !.error = IF status.error # "none" THEN status.error
                      ELSE "Transaction was not approved",
            !.errorCode = ToUpperCase(status.status)]

\* The loop test of line 721 letting one query too many through.
QueriesLeftInclusive(attempt) == attempt <= maxAttempts

\* Line 721: attempt < maxAttempts, with attempt the queries made so far.
QueriesLeft(attempt) == attempt < maxAttempts

\* One iteration of pollTransactionStatus, lines 721-756: query the device;
\* return on a complete status, go on while queries are left, and throw
\* TerminalTimeoutError after the last one, which the catch of startPayment
\* turns into the error the route sees.
SkyTabPoll(i, failed) ==
    /\ terminalReqs[i].pc = "poll"
    /\ LET status == GetStatus(device[i], failed)
           r == [terminalReqs[i] EXCEPT !.attempt = @ + 1,
                                        !.lastStatus = status.status,
                                        !.queryFailed = failed]
       IN terminalReqs' = [terminalReqs EXCEPT ![i] =
            IF PollComplete(status.status)
            THEN [r EXCEPT !.pc = "then", !.result = PollResult(status, r.amount)]
            ELSE IF QueriesLeft(r.attempt)
            THEN r
            ELSE Rejected([r EXCEPT !.timedOut = TRUE], "TerminalTimeoutError")]
    /\ UNCHANGED <<orders, terminalTransactions, device, TerminalFrame>>

\* cancel of the SkyTab driver, lines 575-600, called while the poll of the
\* transaction is running: the cancel request reaches the device, which
\* cancels a pending transaction or refuses, or the request fails; the driver
\* returns { cancelled, error } and touches nothing else.
SkyTabCancel(i, outcome) ==
    /\ terminalReqs[i].pc = "poll"
    /\ ~terminalReqs[i].cancelRequested
    /\ outcome = "cancelled" => device[i].status = "pending"
    /\ terminalReqs' = [terminalReqs EXCEPT ![i].cancelRequested = TRUE]
    /\ device' = [device EXCEPT ![i] =
           IF outcome = "cancelled"
           THEN DeviceData("cancelled", DeviceReason("cancelled")[1],
                           DeviceReason("cancelled")[2], 0, @.total_amount)
           ELSE @]
    /\ UNCHANGED <<orders, terminalTransactions, TerminalFrame>>

\* ResponseCode values of the UTG server: approved, declined, cancelled and
\* timed out (part_004 351-353).
UtgResponseCodes == {"00", "05", "CA", "TO"}

UtgResponseMessage(code) ==
    IF code = "00" THEN "APPROVED"
    ELSE IF code = "05" THEN "DO NOT HONOR"
    ELSE IF code = "CA" THEN "CANCELLED"
    ELSE "TIMED OUT"

\* parsePaymentResponse taking every answer but a decline as an approval.
ParsePaymentResponseUnlessDeclined(code, token, total) ==
    [approved |-> code # "05",
     responseCode |-> code,
     responseMessage |-> UtgResponseMessage(code),
     token |-> token,
     totalAmount |-> total,
     error |-> IF code # "05" THEN "none" ELSE UtgResponseMessage(code),
     errorCode |-> IF code # "05" THEN "none" ELSE code]

\* parsePaymentResponse of the UTG driver, part_004 637-668.
ParsePaymentResponse(code, token, total) ==
    [approved |-> code = "00",
     responseCode |-> code,
     responseMessage |-> UtgResponseMessage(code),
     token |-> token,
     totalAmount |-> total,
     error |-> IF code = "00" THEN "none" ELSE UtgResponseMessage(code),
     errorCode |-> IF code = "00" THEN "none" ELSE code]

\* Lines 425-428 of the UTG driver: one request that returns the outcome of
\* the transaction; code is a ResponseCode or the code of the axios error.
\* The answer of the UTG server is kept as the device's record of the
\* transaction.
UtgPost(i, code, token) ==
    /\ terminalReqs[i].pc = "post"
    /\ terminalReqs[i].type = "UTG"
    /\ IF code \in UtgResponseCodes
       THEN /\ device' = [device EXCEPT ![i] =
                   DeviceData("answered", code, UtgResponseMessage(code),
                              IF code = "00" THEN token ELSE 0, terminalReqs[i].amount)]
            /\ terminalReqs' = [terminalReqs EXCEPT ![i] =
                   [@ EXCEPT !.pc = "then",
                             !.result = ParsePaymentResponse(code,
                                            IF code = "00" THEN token ELSE 0,
                                            terminalReqs[i].amount)]]
       ELSE /\ terminalReqs' = [terminalReqs EXCEPT ![i] = Rejected(@, code)]
            /\ UNCHANGED device
    /\ UNCHANGED <<orders, terminalTransactions, TerminalFrame>>

\* Lines 174-188: the then-callback writes the outcome on the session row.
TerminalThenUpdate(i) ==
    /\ terminalReqs[i].pc = "then"
    /\ LET r == terminalReqs[i] IN
       terminalTransactions' = [terminalTransactions EXCEPT ![r.transactionId] =
           [@ EXCEPT !.approved = r.result.approved,
                     !.responseCode = r.result.responseCode,
                     !.responseMessage = r.result.responseMessage,
                     !.completedAt = TRUE]]
    /\ terminalReqs' = [terminalReqs EXCEPT ![i] =
           IF @.result.approved THEN [@ EXCEPT !.pc = "payment"] ELSE TerminalDone(@)]
    /\ UNCHANGED <<orders, device, TerminalFrame>>

\* The unique index on Payment.shift4ChargeId.
ChargeIdTaken(ps, chargeId) == \E k \in DOMAIN ps : ps[k].chargeId = chargeId

\* Lines 190-214: create the CAPTURED payment with the card token as its
\* charge reference; the insert throws on a reference that is already stored,
\* and the error reaches the catch chained after the then-callback.
TerminalThenPayment(i) ==
    /\ terminalReqs[i].pc = "payment"
    /\ LET r == terminalReqs[i] IN
       IF ChargeIdTaken(payments, r.result.token)
       THEN /\ terminalReqs' = [terminalReqs EXCEPT ![i] =
                   [@ EXCEPT !.pc = "catch", !.error = "PrismaClientKnownRequestError",
                             !.message = "Unique constraint failed"]]
            /\ UNCHANGED payments
       ELSE /\ payments' = Append(payments,
                   [orderId |-> r.orderId, chargeId |-> r.result.token,
                    amount |-> r.result.totalAmount, status |-> "CAPTURED",
                    methodType |-> "CARD_TERMINAL", transactionId |-> r.transactionId])
            /\ terminalReqs' = [terminalReqs EXCEPT ![i].pc = "updateOrder"]
    /\ UNCHANGED <<orders, refunds, disputes, payouts, gatewayVars, webhookVars,
                   refundReqs, confirmReqs, terminals, terminalTransactions, device,
                   statusReqs, pingReqs>>

\* Lines 216-222: set the order PAID.
TerminalThenOrder(i) ==
    /\ terminalReqs[i].pc = "updateOrder"
    /\ orders' = [orders EXCEPT ![terminalReqs[i].orderId].status = "PAID"]
    /\ terminalReqs' = [terminalReqs EXCEPT ![i] = TerminalDone(@)]
    /\ UNCHANGED <<terminalTransactions, device, TerminalFrame>>

\* Lines 227-238: the catch-callback marks the session not approved with the
\* error's message.
TerminalCatch(i) ==
    /\ terminalReqs[i].pc = "catch"
    /\ terminalTransactions' =
           [terminalTransactions EXCEPT ![terminalReqs[i].transactionId] =
               [@ EXCEPT !.approved = FALSE,
                         !.responseMessage = terminalReqs[i].message,
                         !.completedAt = TRUE]]
    /\ terminalReqs' = [terminalReqs EXCEPT ![i] = TerminalDone(@)]
    /\ UNCHANGED <<orders, device, TerminalFrame>>

\* The status of lines 29-41 with 'pending' decided by the missing outcome
\* instead of completedAt.
SessionStatusByOutcome(row) ==
    IF ~row.approved /\ row.responseCode = "none" THEN "pending"
    ELSE IF row.approved THEN "approved"
    ELSE IF row.responseCode = "CA" THEN "cancelled"
    ELSE IF row.responseCode = "TO" THEN "timeout"
    ELSE "declined"

\* GET /checkout/terminal/status/{transactionId}, lines 29-41: the status
\* reported for a session row.
SessionStatus(row) ==
    IF ~row.completedAt THEN "pending"
    ELSE IF row.approved THEN "approved"
    ELSE IF row.responseCode = "CA" THEN "cancelled"
    ELSE IF row.responseCode = "TO" THEN "timeout"
    ELSE "declined"

IdlePingReq ==
    [pc |-> "idle", terminalId |-> 0, online |-> FALSE, error |-> "none", resp |-> 0]

PingFrame == <<storeVars, gatewayVars, webhookVars, refundReqs, confirmReqs,
               terminalTransactions, terminalReqs, device, statusReqs>>

\* ping/route.ts 15-22: read the terminal; 404 when there is none.  Slots are
\* taken in order.
PingStart(p, tid) ==
    /\ pingReqs[p].pc = "idle"
    /\ \A q \in 1..(p - 1) : pingReqs[q].pc # "idle"
    /\ pingReqs' = [pingReqs EXCEPT ![p] =
         IF tid \notin DOMAIN terminals
         THEN [@ EXCEPT !.pc = "done", !.terminalId = tid, !.resp = 404]
         ELSE [@ EXCEPT !.pc = "ping", !.terminalId = tid]]
    /\ UNCHANGED <<terminals, PingFrame>>

\* ping of the drivers (part_004 568-590, shift4-adapter.ts 650-676): the
\* health request succeeds, or it fails and the catch returns online = false
\* with the error's message.
Ping(reachable) ==
    [online |-> reachable, error |-> IF reachable THEN "none" ELSE "Connection failed"]

\* ping/route.ts 24-31: the handler awaits the driver's ping.
PingDevice(p, reachable) ==
    /\ pingReqs[p].pc = "ping"
    /\ pingReqs' = [pingReqs EXCEPT ![p] =
           [@ EXCEPT !.pc = "update", !.online = Ping(reachable).online,
                     !.error = Ping(reachable).error]]
    /\ UNCHANGED <<terminals, PingFrame>>

\* ping/route.ts 33-49 marking the terminal only when the ping was online.
PingUpdateWhenOnline(p) ==
    /\ pingReqs[p].pc = "update"
    /\ terminals' = [terminals EXCEPT ![pingReqs[p].terminalId].status =
                         IF pingReqs[p].online THEN "ACTIVE" ELSE @]
    /\ pingReqs' = [pingReqs EXCEPT ![p] = [@ EXCEPT !.pc = "done", !.resp = 200]]
    /\ UNCHANGED PingFrame

\* ping/route.ts 33-49: write ACTIVE after an online ping and OFFLINE after
\* any other, and return the ping's result with 200.
PingUpdate(p) ==
    /\ pingReqs[p].pc = "update"
    /\ terminals' = [terminals EXCEPT ![pingReqs[p].terminalId].status =
                         IF pingReqs[p].online THEN "ACTIVE" ELSE "OFFLINE"]
    /\ pingReqs' = [pingReqs EXCEPT ![p] = [@ EXCEPT !.pc = "done", !.resp = 200]]
    /\ UNCHANGED PingFrame

IdleStatusReq ==
    [pc |-> "idle", transactionId |-> 0, status |-> "none", approved |-> FALSE,
     paymentId |-> 0, resp |-> 0]

StatusFrame == <<storeVars, gatewayVars, webhookVars, refundReqs, confirmReqs, terminals,
                 terminalTransactions, terminalReqs, device, pingReqs>>

\* GET lines 15-41: read the session row; 404 when there is none; otherwise
\* derive the status, and answer at once unless the session is approved.
\* Slots are taken in order.
StatusRead(k, t) ==
    /\ statusReqs[k].pc = "idle"
    /\ \A j \in 1..(k - 1) : statusReqs[j].pc # "idle"
    /\ statusReqs' = [statusReqs EXCEPT ![k] =
         IF t \notin DOMAIN terminalTransactions
         THEN [@ EXCEPT !.pc = "done", !.transactionId = t, !.resp = 404]
         ELSE LET row == terminalTransactions[t]
                  r == [@ EXCEPT !.transactionId = t, !.status = SessionStatus(row),
                                 !.approved = row.approved]
              IN IF row.approved THEN [r EXCEPT !.pc = "payment"]
                 ELSE [r EXCEPT !.pc = "done", !.resp = 200]]
    /\ UNCHANGED StatusFrame

\* prisma.payment.findFirst by metadata.transactionId, lines 46-53; 0 when no
\* payment carries the transaction id.
PaymentOfTransaction(ps, t) ==
    IF \E p \in DOMAIN ps : ps[p].transactionId = t
    THEN CHOOSE p \in DOMAIN ps :
            /\ ps[p].transactionId = t
            /\ \A q \in DOMAIN ps : ps[q].transactionId = t => p <= q
    ELSE 0

\* GET lines 43-78: for an approved session look the payment up and return
\* it as the result, or null when there is none.
StatusPayment(k) ==
    /\ statusReqs[k].pc = "payment"
    /\ statusReqs' = [statusReqs EXCEPT ![k] =
           [@ EXCEPT !.pc = "done", !.resp = 200,
                     !.paymentId = PaymentOfTransaction(payments, statusReqs[k].transactionId)]]
    /\ UNCHANGED StatusFrame

----------------------------------------------------------------------------
\* Initial states.

NoEvent == [stored |-> FALSE, processed |-> FALSE, retryCount |-> 0,
            processingError |-> FALSE]

Order(status, refundedTotal) ==
    [status |-> status, total |-> OrderTotal, refundedTotal |-> refundedTotal]

\* The payment row confirm creates for order 1 and gateway charge 1.
OnlinePayment(status) ==
    [orderId |-> 1, chargeId |-> 1, amount |-> OrderTotal, status |-> status,
     methodType |-> "CARD_ONLINE", transactionId |-> 0]

\* Nothing received, nothing in flight.
InitIdle ==
    /\ disputes = <<>>
    /\ payouts = [p \in PayoutIds |-> "NONE"]
    /\ webhookEvents = [e \in EventIds |-> NoEvent]
    /\ webhookReqs = EmptyBag
    /\ tasks = EmptyBag
    /\ refundReqs = [i \in 1..MaxRefundReqs |-> IdleRefundReq]
    /\ confirmReqs = [i \in 1..MaxConfirmReqs |-> IdleConfirmReq]
    /\ deliveries = [e \in EventIds |-> 0]
    /\ acks = [e \in EventIds |-> 0]
    /\ handlerRuns = [e \in EventIds |-> 0]
    /\ terminals = TerminalTable
    /\ terminalTransactions = <<>>
    /\ terminalReqs = [i \in 1..MaxTerminalReqs |-> IdleTerminalReq]
    /\ device = [i \in 1..MaxTerminalReqs |-> NoDeviceData]
    /\ statusReqs = [k \in 1..MaxStatusReqs |-> IdleStatusReq]
    /\ invalidReqs = [received |-> 0, rejected |-> 0]
    /\ pingReqs = [p \in 1..MaxPingReqs |-> IdlePingReq]

\* A draft order that nobody has tried to pay.
InitDraft ==
    /\ InitIdle
    /\ orders = [o \in OrderIds |-> Order("DRAFT", 0)]
    /\ payments = <<>>
    /\ refunds = <<>>
    /\ charges = <<>>
    /\ refundCalls = <<>>

\* The store after one confirm request for order 1 has returned: the charge
\* succeeded (payment CAPTURED, order PAID) or failed (payment FAILED, order
\* PENDING_PAYMENT).
InitCharged ==
    /\ InitIdle
    /\ \E gatewayStatus \in {"successful", "failed"} :
         LET result == MapChargeStatus(gatewayStatus) IN
         /\ orders = [o \in OrderIds |-> Order(OrderStatusAfterCharge(result), 0)]
         /\ payments = <<OnlinePayment(PaymentRowStatus(result))>>
         /\ charges = <<ChargeRow(1, gatewayStatus, result, 200)>>
    /\ refunds = <<>>
    /\ refundCalls = <<>>

\* The store after confirm captured the payment and one refund request of
\* 2000 has returned with the gateway's result still pending.
InitPartiallyRefunded ==
    /\ InitIdle
    /\ orders = [o \in OrderIds |-> Order("PARTIALLY_REFUNDED", 2000)]
    /\ payments = <<OnlinePayment("PARTIALLY_REFUNDED")>>
    /\ charges = <<ChargeRow(1, "successful", "succeeded", 200)>>
    /\ refunds = <<[paymentId |-> 1, refundId |-> 1, amount |-> 2000,
                    status |-> "PENDING"]>>
    /\ refundCalls = <<[chargeId |-> 1, amount |-> 2000, status |-> "pending"]>>

----------------------------------------------------------------------------
\* Specifications.

\* The webhook receiver and processor over a charged, possibly partially
\* refunded, payment; every event of the catalogue can be delivered.
InitWebhook == InitCharged \/ InitPartiallyRefunded

NextWebhook ==
    \E e \in EventIds :
        \/ WebhookReceive(e)
        \/ WebhookStore(e)
        \/ HandleChargeSucceeded(e)
        \/ HandleChargeFailed(e)
        \/ HandleChargeCaptured(e)
        \/ HandleChargeRefunded(e)
        \/ HandleChargeRefundedRefund(e)
        \/ HandleRefundSucceeded(e)
        \/ HandleRefundFailed(e)
        \/ HandleDisputeCreated(e)
        \/ HandleDisputeCreatedInsert(e)
        \/ HandleDisputeClosed(e)
        \/ HandlePayout(e)
        \/ HandleUnhandled(e)
        \/ MarkProcessed(e)
        \/ ProcessCatch(e)

SpecWebhook == InitWebhook /\ [][NextWebhook]_vars

\* The payloads a sender may post: the event charge.succeeded or an event of
\* a type without handler, each complete, without its id, without its type,
\* or without both.
Payloads ==
    { [id |-> id, type |-> type] :
        id \in {"evt_succeeded", "evt_other", "none"},
        type \in {"charge.succeeded", "customer.created", "none"} }
    \ { [id |-> "evt_succeeded", type |-> "customer.created"],
         [id |-> "evt_other", type |-> "charge.succeeded"] }

\* Deliveries of well-formed and malformed payloads and the processing of
\* the events stored.
NextWebhookPayloads ==
    \/ \E payload \in Payloads : WebhookReceivePayload(payload)
    \/ \E e \in {"evt_succeeded", "evt_other"} :
        \/ WebhookStore(e)
        \/ HandleChargeSucceeded(e)
        \/ HandleUnhandled(e)
        \/ MarkProcessed(e)

SpecWebhookPayloads == InitWebhook /\ [][NextWebhookPayloads]_vars

\* The same, with store calls that can fail under a handler.  The processor
\* takes its steps without outside help, so each is weakly fair; deliveries are
\* the gateway's choice and carry no fairness.
NextWebhookFaulty ==
    \/ NextWebhook
    \/ \E e \in EventIds : StoreCallFails(e)

ProcessorStep ==
    \E e \in EventIds :
        \/ WebhookStore(e)
        \/ HandleChargeSucceeded(e)
        \/ HandleChargeFailed(e)
        \/ HandleChargeCaptured(e)
        \/ HandleChargeRefunded(e)
        \/ HandleChargeRefundedRefund(e)
        \/ HandleRefundSucceeded(e)
        \/ HandleRefundFailed(e)
        \/ HandleDisputeCreated(e)
        \/ HandleDisputeCreatedInsert(e)
        \/ HandleDisputeClosed(e)
        \/ HandlePayout(e)
        \/ HandleUnhandled(e)
        \/ MarkProcessed(e)
        \/ ProcessCatch(e)

SpecWebhookFaulty ==
    InitWebhook /\ [][NextWebhookFaulty]_vars /\ WF_vars(ProcessorStep)

\* Refund requests on a charged payment, together with the webhook events that
\* write the payment's or a refund's status.
RefundEvents ==
    {"evt_refunded", "evt_refund_succeeded", "evt_refund_succeeded2"}

GatewayRefundOutcomes == {"succeeded", "pending", "error"}

NextRefund ==
    \/ \E i \in 1..MaxRefundReqs :
        \/ \E pid \in RequestedPaymentIds, amt \in RefundAmounts :
               RefundStart(i, pid, amt)
        \/ RefundValidate(i)
        \/ \E outcome \in GatewayRefundOutcomes : RefundGateway(i, outcome)
        \/ RefundCreate(i)
        \/ RefundUpdatePayment(i)
        \/ RefundUpdateOrder(i)
    \/ \E e \in RefundEvents :
        \/ WebhookReceive(e)
        \/ WebhookStore(e)
        \/ HandleChargeRefunded(e)
        \/ HandleChargeRefundedRefund(e)
        \/ HandleRefundSucceeded(e)
        \/ MarkProcessed(e)

SpecRefund == InitCharged /\ [][NextRefund]_vars

\* Confirm requests on a draft order, together with the charge events of the
\* gateway.
ConfirmEvents == {"evt_succeeded", "evt_failed", "evt_captured"}

\* charge.status as the gateway reports it; the adapter reads every status
\* but 'successful' and 'failed' as pending.
GatewayChargeStatuses == {"successful", "failed", "pending"}

NextConfirm ==
    \/ \E i \in 1..MaxConfirmReqs :
        \/ \E oid \in RequestedOrderIds : ConfirmStart(i, oid)
        \/ \E gatewayStatus \in GatewayChargeStatuses : ConfirmCharge(i, gatewayStatus)
        \/ ConfirmChargeError(i, 0)
        \/ ConfirmCreatePayment(i)
        \/ ConfirmUpdateOrder(i)
    \/ \E e \in ConfirmEvents :
        \/ WebhookReceive(e)
        \/ WebhookStore(e)
        \/ HandleChargeSucceeded(e)
        \/ HandleChargeFailed(e)
        \/ HandleChargeCaptured(e)
        \/ MarkProcessed(e)

SpecConfirm == InitDraft /\ [][NextConfirm]_vars

\* Confirm requests on the draft order that the gateway answers with a
\* successful or a failed charge, together with deliveries of the
\* charge.succeeded event of the first charge.
NextConfirmSucceeded ==
    \/ \E i \in 1..MaxConfirmReqs :
        \/ \E oid \in OrderIds : ConfirmStart(i, oid)
        \/ \E gatewayStatus \in {"successful", "failed"} : ConfirmCharge(i, gatewayStatus)
        \/ ConfirmCreatePayment(i)
        \/ ConfirmUpdateOrder(i)
    \/ WebhookReceive("evt_succeeded")
    \/ WebhookStore("evt_succeeded")
    \/ HandleChargeSucceeded("evt_succeeded")
    \/ MarkProcessed("evt_succeeded")

SpecConfirmSucceeded == InitDraft /\ [][NextConfirmSucceeded]_vars

\* What a confirm request carries to pay with.
CredentialKinds == {"token", "customerId", "none"}

\* HTTP statuses of a failed gateway request; 0 stands for no response.
HttpFailureStatuses == {0, 400, 401, 402, 404, 429, 500, 502, 503, 504}

\* Confirm requests alone, with every answer of the gateway.
NextConfirmRequests ==
    \E i \in 1..MaxConfirmReqs :
        \/ \E oid \in RequestedOrderIds, cred \in CredentialKinds :
               ConfirmReceive(i, oid, cred)
        \/ \E gatewayStatus \in GatewayChargeStatuses : ConfirmCharge(i, gatewayStatus)
        \/ \E http \in HttpFailureStatuses : ConfirmChargeError(i, http)
        \/ ConfirmChargeRejected(i)
        \/ ConfirmCreatePayment(i)
        \/ ConfirmUpdateOrder(i)

SpecConfirmRequests == InitDraft /\ [][NextConfirmRequests]_vars

\* Refund requests alone on a charged payment.
NextRefundRequests ==
    \E i \in 1..MaxRefundReqs :
        \/ \E pid \in RequestedPaymentIds, amt \in RefundAmounts :
               RefundStart(i, pid, amt)
        \/ RefundValidate(i)
        \/ \E outcome \in GatewayRefundOutcomes : RefundGateway(i, outcome)
        \/ RefundCreate(i)
        \/ RefundUpdatePayment(i)
        \/ RefundUpdateOrder(i)

SpecRefundRequests == InitCharged /\ [][NextRefundRequests]_vars

\* Refund requests one after the other: a request is received only when every
\* earlier one has returned.
RefundStartAlone(i, pid, amt) ==
    /\ \A j \in 1..(i - 1) : refundReqs[j].pc = "done"
    /\ RefundStart(i, pid, amt)

NextRefundSequential ==
    \E i \in 1..MaxRefundReqs :
        \/ \E pid \in RequestedPaymentIds, amt \in RefundAmounts :
               RefundStartAlone(i, pid, amt)
        \/ RefundValidate(i)
        \/ \E outcome \in GatewayRefundOutcomes : RefundGateway(i, outcome)
        \/ RefundCreate(i)
        \/ RefundUpdatePayment(i)
        \/ RefundUpdateOrder(i)

SpecRefundSequential == InitCharged /\ [][NextRefundSequential]_vars

\* Terminal payments on a draft order, with the device deciding each
\* transaction it was given.
TerminalAmounts == {OrderTotal}

PostErrorCodes == {"ECONNREFUSED", "ETIMEDOUT", "ECONNABORTED", "ERR_BAD_RESPONSE"}

NextTerminal ==
    \E i \in 1..MaxTerminalReqs :
        \/ \E tid \in RequestedTerminalIds, oid \in RequestedOrderIds,
              amt \in TerminalAmounts : TerminalPayStart(i, tid, oid, amt)
        \/ TerminalPayOrder(i)
        \/ TerminalPayCreate(i)
        \/ \E code \in {"ok"} \cup PostErrorCodes : SkyTabPost(i, code)
        \/ \E failed \in BOOLEAN : SkyTabPoll(i, failed)
        \/ \E code \in UtgResponseCodes \cup PostErrorCodes, token \in CardTokens :
               UtgPost(i, code, token)
        \/ \E token \in CardTokens : DeviceApproves(i, token)
        \/ \E status \in {"declined", "cancelled", "error"} : DeviceRefuses(i, status)
        \/ TerminalThenUpdate(i)
        \/ TerminalThenPayment(i)
        \/ TerminalThenOrder(i)
        \/ TerminalCatch(i)

SpecTerminal == InitDraft /\ [][NextTerminal]_vars

\* One terminal payment of order 1, on the SkyTab or the UTG terminal, and
\* status requests of the client while it runs and after it.
NextTerminalStatus ==
    \/ \E tid \in {1, 2}, amt \in TerminalAmounts : TerminalPayStart(1, tid, 1, amt)
    \/ TerminalPayOrder(1)
    \/ TerminalPayCreate(1)
    \/ \E code \in {"ok"} \cup PostErrorCodes : SkyTabPost(1, code)
    \/ \E failed \in BOOLEAN : SkyTabPoll(1, failed)
    \/ \E code \in UtgResponseCodes \cup PostErrorCodes, token \in CardTokens :
           UtgPost(1, code, token)
    \/ \E token \in CardTokens : DeviceApproves(1, token)
    \/ \E status \in {"declined", "cancelled", "error"} : DeviceRefuses(1, status)
    \/ TerminalThenUpdate(1)
    \/ TerminalThenPayment(1)
    \/ TerminalThenOrder(1)
    \/ TerminalCatch(1)
    \/ \E k \in 1..MaxStatusReqs :
        \/ \E t \in RequestedTransactionIds : StatusRead(k, t)
        \/ StatusPayment(k)

SpecTerminalStatus == InitDraft /\ [][NextTerminalStatus]_vars

\* Pings of the SkyTab terminals and of a terminal that does not exist, beside
\* one payment of order 1 on a SkyTab terminal.
NextTerminalPing ==
    \/ \E p \in 1..MaxPingReqs :
        \/ \E tid \in {1, 3, 4} : PingStart(p, tid)
        \/ \E reachable \in BOOLEAN : PingDevice(p, reachable)
        \/ PingUpdate(p)
    \/ \E tid \in {1, 3}, amt \in TerminalAmounts : TerminalPayStart(1, tid, 1, amt)
    \/ TerminalPayOrder(1)
    \/ TerminalPayCreate(1)
    \/ \E code \in {"ok"} \cup PostErrorCodes : SkyTabPost(1, code)
    \/ \E failed \in BOOLEAN : SkyTabPoll(1, failed)
    \/ \E token \in CardTokens : DeviceApproves(1, token)
    \/ \E status \in {"declined", "cancelled", "error"} : DeviceRefuses(1, status)
    \/ TerminalThenUpdate(1)
    \/ TerminalThenPayment(1)
    \/ TerminalThenOrder(1)
    \/ TerminalCatch(1)

SpecTerminalPing == InitDraft /\ [][NextTerminalPing]_vars

\* Terminal payments of order 1 on the SkyTab terminal in service, one after
\* the other: a payment is requested only when every earlier one has ended.
TerminalPayStartAlone(i, tid, oid, amt) ==
    /\ \A j \in 1..(i - 1) : terminalReqs[j].pc = "done"
    /\ TerminalPayStart(i, tid, oid, amt)

NextSkyTab ==
    \E i \in 1..MaxTerminalReqs :
        \/ \E amt \in TerminalAmounts : TerminalPayStartAlone(i, 1, 1, amt)
        \/ TerminalPayOrder(i)
        \/ TerminalPayCreate(i)
        \/ \E code \in {"ok"} \cup PostErrorCodes : SkyTabPost(i, code)
        \/ \E failed \in BOOLEAN : SkyTabPoll(i, failed)
        \/ \E token \in CardTokens : DeviceApproves(i, token)
        \/ \E status \in {"declined", "cancelled", "error"} : DeviceRefuses(i, status)
        \/ TerminalThenUpdate(i)
        \/ TerminalThenPayment(i)
        \/ TerminalThenOrder(i)
        \/ TerminalCatch(i)

SpecSkyTab == InitDraft /\ [][NextSkyTab]_vars

\* The same, with a caller that cancels a payment while it is polled.
CancelOutcomes == {"cancelled", "refused", "failed"}

NextSkyTabCancel ==
    \/ NextSkyTab
    \/ \E i \in 1..MaxTerminalReqs, outcome \in CancelOutcomes : SkyTabCancel(i, outcome)

SpecSkyTabCancel == InitDraft /\ [][NextSkyTabCancel]_vars

----------------------------------------------------------------------------
\* Properties.

InFlight(e) == BagIn(e, webhookReqs) \/ \E t \in BagToSet(tasks) : t.ev = e

\* C1: for every event id, N deliveries of the same notification apply the
\* event's handler effect exactly once and return N acknowledgements: the
\* handler never runs a second time, and once every delivery has been handled
\* to the end it has run once and every delivery was answered 200.
C1_OneEffectPerEvent ==
    \A e \in EventIds :
        /\ handlerRuns[e] <= 1
        /\ (deliveries[e] >= 1 /\ ~InFlight(e))
               => (handlerRuns[e] = 1 /\ acks[e] = deliveries[e])

ChargesOf(o) == {i \in DOMAIN charges : charges[i].orderId = o /\ charges[i].status # "error"}
PaymentsOf(o) == {i \in DOMAIN payments : payments[i].orderId = o}

\* C2: for any order, any number of concurrent or retried confirm requests
\* create at most one gateway charge and at most one payment record.
C2_OneChargePerOrder ==
    \A o \in OrderIds : Cardinality(ChargesOf(o)) <= 1 /\ Cardinality(PaymentsOf(o)) <= 1

\* C3: in every reachable state, for every payment, the amounts of its
\* SUCCEEDED refunds sum to at most the payment's amount.
C3_RefundsWithinAmount ==
    \A p \in DOMAIN payments : TotalRefunded(refunds, p) <= payments[p].amount

\* C4: once a payment is CAPTURED, no step sets its status to FAILED (a later
\* charge.failed event for its charge is discarded).
C4_CapturedNeverFailed ==
    [][\A p \in DOMAIN payments :
          payments[p].status = "CAPTURED" => payments'[p].status # "FAILED"]_vars

\* C5: a status change whose expected revision differs from the payment's
\* current revision leaves the payment unchanged: when the refund handler
\* reaches its status update and the payment is no longer as the handler read
\* it, the update does not change the payment.
C5_StaleUpdateRejected ==
    [][\A i \in 1..MaxRefundReqs :
          ( /\ refundReqs[i].pc = "updatePayment"
            /\ refundReqs'[i].pc # "updatePayment"
            /\ payments[refundReqs[i].paymentId] # refundReqs[i].payment )
          => payments' = payments]_vars

\* C6: a payment's status only moves forward: from PARTIALLY_REFUNDED or
\* REFUNDED it never returns to CAPTURED, and from REFUNDED it never returns to
\* PARTIALLY_REFUNDED.
C6_StatusOnlyForward ==
    [][\A p \in DOMAIN payments :
          /\ payments[p].status \in {"PARTIALLY_REFUNDED", "REFUNDED"}
                 => payments'[p].status # "CAPTURED"
          /\ payments[p].status = "REFUNDED"
                 => payments'[p].status # "PARTIALLY_REFUNDED"]_vars

\* The amount a request in slot i asks for is above what is left of its
\* payment: the payment's amount minus the sum of its SUCCEEDED refunds.
C7_OverLimit(i) ==
    LET pid == refundReqs[i].paymentId
        asked == IF refundReqs[i].amount # 0 THEN refundReqs[i].amount
                 ELSE payments[pid].amount
    IN asked > payments[pid].amount - SumAmounts(SucceededRefunds(refunds, pid))

\* C7: a refund request whose amount exceeds the payment's amount minus the
\* sum of its SUCCEEDED refunds is rejected with 400 before any side effect:
\* the validation step answers 400 and changes neither the store nor the
\* gateway, and a handler that has returned takes no further step.
C7_OverLimitRejected ==
    [][\A i \in 1..MaxRefundReqs :
          /\ ( /\ refundReqs[i].pc = "validate"
               /\ refundReqs'[i].pc # "validate"
               /\ C7_OverLimit(i) )
             => ( /\ refundReqs'[i].pc = "done"
                  /\ refundReqs'[i].resp = 400
                  /\ UNCHANGED <<orders, payments, refunds, charges, refundCalls>> )
          /\ refundReqs[i].pc = "done" => refundReqs'[i] = refundReqs[i]]_vars

\* C7 witness: after a refund has succeeded, a request for more than what is
\* left has been rejected at validation with 400.
C7_Witness ==
    \E i \in 1..MaxRefundReqs :
        /\ refundReqs[i].pc = "done"
        /\ refundReqs[i].resp = 400
        /\ refundReqs[i].refundAmount > 0
        /\ TotalRefunded(refunds, refundReqs[i].paymentId) > 0
        /\ refundReqs[i].refundAmount >
               payments[refundReqs[i].paymentId].amount
                   - TotalRefunded(refunds, refundReqs[i].paymentId)

Accepted(i, amt) ==
    refundReqs[i].pc = "done" /\ refundReqs[i].amount = amt /\ refundReqs[i].resp = 200

\* C8: on a CAPTURED payment of 5000, a first refund of 2000 leaves the payment
\* PARTIALLY_REFUNDED and a second refund of 3000 leaves it REFUNDED.
C8_RefundScenario ==
    (charges[1].status = "succeeded" /\ payments[1].amount = 5000 /\ Accepted(1, 2000))
    => /\ refundReqs[2].pc = "idle" => payments[1].status = "PARTIALLY_REFUNDED"
       /\ Accepted(2, 3000) => payments[1].status = "REFUNDED"

\* C9: a refund requested on a payment whose status is FAILED is rejected
\* without a gateway refund call and without a refund record.
C9_NoRefundOnFailed ==
    \A p \in DOMAIN payments :
        payments[p].status = "FAILED"
            => /\ \A k \in DOMAIN refundCalls : refundCalls[k].chargeId # payments[p].chargeId
               /\ \A k \in DOMAIN refunds : refunds[k].paymentId # p

DisputesOf(d) == {k \in DOMAIN disputes : disputes[k].disputeId = d}

\* C10: running the processing of one stored event twice leaves the state of
\* one run: no second dispute record, and the second run ends in success, so
\* the event carries no processing error.
C10_SecondRunIsNoOp ==
    \A e \in EventIds :
        handlerRuns[e] >= 2
            => /\ ~webhookEvents[e].processingError
               /\ Cardinality(DisputesOf(EventCatalogue[e].id)) <= 1

\* C11: a delivery of an event id whose stored record is already processed is
\* acknowledged with 200 and does nothing else: it starts no processing run
\* and changes no payment, refund, dispute, payout or event record.
C11_ProcessedDeliveryOnlyAcks ==
    [][\A e \in EventIds :
          ( /\ webhookEvents[e].stored
            /\ webhookEvents[e].processed
            /\ deliveries'[e] = deliveries[e] + 1 )
          => /\ acks'[e] = acks[e] + 1
             /\ UNCHANGED <<storeVars, webhookEvents, webhookReqs, tasks, handlerRuns>>]_vars

\* C11 witness: an event was processed by its first delivery and a second
\* delivery has been acknowledged without an upsert and without a second run.
C11_Witness ==
    \E e \in EventIds :
        /\ webhookEvents[e].processed
        /\ webhookEvents[e].retryCount = 0
        /\ deliveries[e] = 2
        /\ acks[e] = 2
        /\ handlerRuns[e] = 1
        /\ ~InFlight(e)

\* C12: once confirm has recorded a CAPTURED payment for a charge, processing
\* charge.succeeded for that charge leaves the payment CAPTURED and creates no
\* payment record, and the processed event ends with processed = true.
C12_SucceededAfterConfirm ==
    /\ [][\A p \in DOMAIN payments :
             ( /\ payments[p].status = "CAPTURED"
               /\ payments[p].chargeId = EventCatalogue["evt_succeeded"].id
               /\ handlerRuns'["evt_succeeded"] # handlerRuns["evt_succeeded"] )
             => (payments'[p].status = "CAPTURED" /\ Len(payments') = Len(payments))]_vars
    /\ [](( /\ handlerRuns["evt_succeeded"] >= 1
            /\ ~InFlight("evt_succeeded") )
          => webhookEvents["evt_succeeded"].processed)

\* C12 witness: confirm created the CAPTURED payment of charge 1, and
\* charge.succeeded for charge 1 has been processed to the end after it.
C12_Witness ==
    /\ \E i \in 1..MaxConfirmReqs :
          /\ confirmReqs[i].pc = "done"
          /\ confirmReqs[i].resp = 200
          /\ confirmReqs[i].paymentId = 1
    /\ Len(payments) = 1
    /\ payments[1].chargeId = EventCatalogue["evt_succeeded"].id
    /\ payments[1].status = "CAPTURED"
    /\ handlerRuns["evt_succeeded"] = 1
    /\ webhookEvents["evt_succeeded"].processed
    /\ ~InFlight("evt_succeeded")

\* C13: the 200 of a well-formed delivery does not wait for processing: every
\* delivery that stored its event has been acknowledged, whatever the state of
\* the processing it started, and no processing step changes the responses.
C13_AckIndependentOfProcessing ==
    /\ [](\A e \in EventIds : acks[e] + CopiesIn(e, webhookReqs) = deliveries[e])
    /\ [][(webhookReqs' = webhookReqs /\ deliveries' = deliveries)
             => acks' = acks]_vars

\* C13 witness: a delivery has been acknowledged while the processing it
\* started has not finished.
C13_Witness ==
    \E e \in EventIds :
        /\ acks[e] = 1
        /\ deliveries[e] = 1
        /\ HasTask(e, "handle")
        /\ ~webhookEvents[e].processed

\* C14: when the processing of a stored event fails, the catch leaves the
\* record with processed = false and the error, and increments retry_count;
\* the responses already given are not changed.
C14_FailureRecorded ==
    [][\A e \in EventIds :
          (HasTask(e, "catch") /\ tasks' = DropTask(e, "catch"))
          => /\ ~webhookEvents'[e].processed
             /\ webhookEvents'[e].processingError
             /\ webhookEvents'[e].retryCount = webhookEvents[e].retryCount + 1
             /\ acks' = acks]_vars

\* C15: a failed event is retried by the processor itself: while a stored event
\* has failed and is not processed, a processing run of it is pending, so it
\* can reach processed = true without a further delivery.
C15_FailedEventRetried ==
    \A e \in EventIds :
        (webhookEvents[e].stored /\ webhookEvents[e].processingError
            /\ ~webhookEvents[e].processed)
        => \E t \in BagToSet(tasks) : t.ev = e

SessionOf(i) == terminalTransactions[terminalReqs[i].transactionId]

CapturedPaymentsOf(t) ==
    {p \in DOMAIN payments :
        payments[p].transactionId = t /\ payments[p].status = "CAPTURED"}

\* C16: a session is reported pending exactly while completedAt is unset, and
\* once completedAt is set no step writes the session's outcome again; in
\* particular an approved session is never overwritten as not approved.
C16_OutcomeWrittenOnce ==
    [][\A t \in DOMAIN terminalTransactions :
          /\ SessionStatus(terminalTransactions[t]) = "pending"
                 <=> ~terminalTransactions[t].completedAt
          /\ terminalTransactions[t].completedAt
                 => terminalTransactions'[t] = terminalTransactions[t]]_vars

\* C17: a session whose polling timed out and whose device later reports
\* approved ends with exactly one CAPTURED payment for that session.
C17_LateApprovalRecorded ==
    \A i \in 1..MaxTerminalReqs :
        ( /\ terminalReqs[i].pc = "done"
          /\ terminalReqs[i].timedOut
          /\ device[i].status = "approved" )
        => Cardinality(CapturedPaymentsOf(terminalReqs[i].transactionId)) = 1

\* C18: when the poll budget is exhausted with the device still pending, the
\* driver reports a timeout error, the session is recorded as failed with the
\* timeout reason, and the status endpoint reports 'timeout'.
C18_TimeoutReported ==
    \A i \in 1..MaxTerminalReqs :
        terminalReqs[i].timedOut
        => /\ terminalReqs[i].pc = "catch"
                  => terminalReqs[i].error = "TerminalTimeoutError"
           /\ terminalReqs[i].pc = "done"
                  => /\ ~SessionOf(i).approved
                     /\ SessionOf(i).responseCode = "TO"
                     /\ SessionStatus(SessionOf(i)) = "timeout"

\* C19: a status query that fails at the network level does not end the poll:
\* after it the driver is still polling, or has used its last query and timed
\* out.
C19_FailedQueryKeepsPolling ==
    \A i \in 1..MaxTerminalReqs :
        terminalReqs[i].queryFailed => terminalReqs[i].pc \in {"poll", "catch"}

\* C20: when the device reports pending and then declined, the session ends
\* not approved with the device's decline reason as its failure reason, no
\* CAPTURED payment is created for it, and an order without a payment is not
\* PAID.
C20_DeclineRecorded ==
    \A i \in 1..MaxTerminalReqs :
        ( /\ terminalReqs[i].pc = "done"
          /\ terminalReqs[i].lastStatus = "declined"
          /\ terminalReqs[i].attempt >= 2 )
        => /\ SessionOf(i).completedAt
           /\ ~SessionOf(i).approved
           /\ SessionOf(i).responseMessage = device[i].response_message
           /\ CapturedPaymentsOf(terminalReqs[i].transactionId) = {}
           /\ PaymentsOf(terminalReqs[i].orderId) = {}
                  => orders[terminalReqs[i].orderId].status # "PAID"

\* C21: the poll loop terminates: every iteration is one more status query,
\* the number of queries never exceeds maxAttempts, the loop is left at the
\* first query whose status is not pending, and the timeout is raised after
\* exactly maxAttempts queries that all reported pending.
C21_PollTerminates ==
    /\ [](\A i \in 1..MaxTerminalReqs :
            /\ terminalReqs[i].attempt <= maxAttempts
            /\ terminalReqs[i].pc = "poll"
                   => /\ terminalReqs[i].attempt < maxAttempts
                      /\ terminalReqs[i].lastStatus \in {"none", "pending"}
            /\ (terminalReqs[i].pc = "then" /\ terminalReqs[i].type = "SKYTAB")
                   => terminalReqs[i].lastStatus \notin {"none", "pending"}
            /\ terminalReqs[i].timedOut
                   => /\ terminalReqs[i].attempt = maxAttempts
                      /\ terminalReqs[i].lastStatus = "pending")
    /\ [][\A i \in 1..MaxTerminalReqs :
             (terminalReqs[i].pc = "poll" /\ terminalReqs'[i] # terminalReqs[i])
             => /\ terminalReqs'[i].attempt = terminalReqs[i].attempt + 1
                /\ (terminalReqs'[i].pc = "poll")
                       <=> ( /\ terminalReqs'[i].lastStatus = "pending"
                             /\ terminalReqs'[i].attempt # maxAttempts )]_vars

\* C21 witness: a poll has raised the timeout after maxAttempts pending
\* queries, while another has returned at a query that was not pending.
C21_Witness ==
    \E i, j \in 1..MaxTerminalReqs :
        /\ terminalReqs[i].timedOut
        /\ terminalReqs[i].attempt = maxAttempts
        /\ terminalReqs[j].pc = "done"
        /\ ~terminalReqs[j].timedOut
        /\ terminalReqs[j].attempt >= 2
        /\ terminalReqs[j].lastStatus = "approved"

\* C22: after the caller has cancelled a payment whose poll is running, no
\* further status query is issued for that session, and the session row stays
\* in the store.
C22_CancelStopsPolling ==
    [][\A i \in 1..MaxTerminalReqs :
          terminalReqs[i].cancelRequested
          => /\ terminalReqs'[i].attempt = terminalReqs[i].attempt
             /\ terminalReqs[i].transactionId \in DOMAIN terminalTransactions']_vars

\* C23: a status request only reads: no step of it changes a stored record, a
\* session in flight or the device; it can be answered in every state,
\* whatever the device call is doing; and it reports 'pending' exactly when
\* the session row it read has no completedAt.
C23_StatusOnlyReads ==
    /\ [][\A k \in 1..MaxStatusReqs :
             statusReqs'[k] # statusReqs[k]
             => /\ UNCHANGED <<storeVars, terminals, terminalTransactions, terminalReqs,
                               device, webhookEvents>>
                /\ (statusReqs[k].pc = "idle" /\ statusReqs'[k].resp # 404)
                       => ( statusReqs'[k].status = "pending"
                              <=> ~terminalTransactions[statusReqs'[k].transactionId]
                                      .completedAt )]_vars
    /\ [](\A k \in 1..MaxStatusReqs :
            /\ (statusReqs[k].pc = "idle" /\ \A j \in 1..(k - 1) : statusReqs[j].pc # "idle")
                   => ENABLED (\E t \in RequestedTransactionIds : StatusRead(k, t))
            /\ statusReqs[k].pc = "payment" => ENABLED StatusPayment(k))

\* C23 witness: a status request was answered 'pending' while the driver was
\* still polling the device, and a later one reported the session's outcome.
C23_Witness ==
    /\ statusReqs[1].pc = "done"
    /\ statusReqs[1].resp = 200
    /\ statusReqs[1].status = "pending"
    /\ statusReqs[2].pc = "idle"
    /\ terminalReqs[1].pc = "poll"
    /\ terminalReqs[1].attempt >= 1

\* C24: the store keeps one record per event id under any interleaving of
\* deliveries: a record once created is never created again or removed, and a
\* delivery that finds the record changes nothing of it but retry_count, which
\* it raises by one.
C24_OneRecordPerEvent ==
    [][\A e \in EventIds :
          /\ webhookEvents[e].stored => webhookEvents'[e].stored
          /\ (webhookEvents[e].stored /\ CopiesIn(e, webhookReqs') < CopiesIn(e, webhookReqs))
                 => webhookEvents'[e] =
                        [webhookEvents[e] EXCEPT !.retryCount = webhookEvents[e].retryCount + 1]
          /\ (~webhookEvents[e].stored /\ webhookEvents'[e].stored)
                 => /\ CopiesIn(e, webhookReqs') < CopiesIn(e, webhookReqs)
                    /\ webhookEvents'[e].retryCount = 0]_vars

\* C24 witness: two deliveries of one event ran side by side, both past the
\* lookup before either stored; the event has one record with one retry
\* counted and both deliveries started processing.
C24_Witness ==
    \E e \in EventIds :
        /\ deliveries[e] = 2
        /\ acks[e] = 2
        /\ webhookEvents[e].stored
        /\ webhookEvents[e].retryCount = 1
        /\ ~webhookEvents[e].processed
        /\ CopiesIn(Task(e, "handle"), tasks) = 2

\* C25: confirm creates its payment CAPTURED and sets the order PAID exactly
\* when the gateway reported the charge 'successful'; for every other status
\* of the charge the payment is FAILED and the order PENDING_PAYMENT; when the
\* gateway call fails it records neither.
C25_ConfirmRecordsGatewayStatus ==
    [][\A i \in 1..MaxConfirmReqs :
          LET c == confirmReqs[i]
              successful == charges[c.chargeId].gatewayStatus = "successful"
          IN /\ (c.pc = "create" /\ confirmReqs'[i] # c)
                    => /\ Len(payments') = Len(payments) + 1
                       /\ payments'[Len(payments')].chargeId = c.chargeId
                       /\ payments'[Len(payments')].status =
                              IF successful THEN "CAPTURED" ELSE "FAILED"
             /\ (c.pc = "updateOrder" /\ confirmReqs'[i] # c)
                    => orders'[c.orderId].status =
                           IF successful THEN "PAID" ELSE "PENDING_PAYMENT"
             /\ (c.pc = "charge" /\ confirmReqs'[i].pc = "done")
                    => UNCHANGED <<payments, orders>>]_vars

\* C25 witness: one confirm recorded a CAPTURED payment for a charge the
\* gateway reported 'successful', another a FAILED payment for a charge the
\* gateway reported 'pending'.
C25_Witness ==
    \E i, j \in 1..MaxConfirmReqs :
        /\ confirmReqs[i].resp = 200
        /\ confirmReqs[j].resp = 200
        /\ payments[confirmReqs[i].paymentId].status = "CAPTURED"
        /\ charges[payments[confirmReqs[i].paymentId].chargeId].gatewayStatus = "successful"
        /\ payments[confirmReqs[j].paymentId].status = "FAILED"
        /\ charges[payments[confirmReqs[j].paymentId].chargeId].gatewayStatus = "pending"

\* C28: the error the adapter throws for a failed gateway request is decided
\* by the HTTP status: 400 InvalidRequestError, 401 AuthenticationError, 402
\* CardError, 429 RateLimitError, 500/502/503/504 and no response
\* NetworkError, any other status PaymentError; only RateLimitError and
\* NetworkError are retryable.
C28_ErrorByHttpStatus ==
    [][\A i \in 1..MaxConfirmReqs :
          ( /\ confirmReqs[i].pc = "charge"
            /\ confirmReqs'[i] # confirmReqs[i]
            /\ Len(charges') = Len(charges) + 1
            /\ charges'[Len(charges')].status = "error" )
          => LET http == charges'[Len(charges')].http
                 name == confirmReqs'[i].error.name
             IN /\ http = 400 <=> name = "InvalidRequestError"
                /\ http = 401 <=> name = "AuthenticationError"
                /\ http = 402 <=> name = "CardError"
                /\ http = 429 <=> name = "RateLimitError"
                /\ http \in {0, 500, 502, 503, 504} <=> name = "NetworkError"
                /\ http \notin {0, 400, 401, 402, 429, 500, 502, 503, 504}
                       <=> name = "PaymentError"
                /\ confirmReqs'[i].error.retryable
                       <=> name \in {"RateLimitError", "NetworkError"}]_vars

\* C28 witness: one confirm ended on a declined card (402) with a CardError
\* that is not retryable, another on a status outside the table (404) with a
\* PaymentError.
C28_Witness ==
    \E i, j \in 1..MaxConfirmReqs :
        /\ confirmReqs[i].pc = "done"
        /\ confirmReqs[i].error = TypedError("CardError", 402, FALSE)
        /\ confirmReqs[j].pc = "done"
        /\ confirmReqs[j].error.name = "PaymentError"
        /\ \E k, l \in DOMAIN charges : charges[k].http = 402 /\ charges[l].http = 404

\* C29: a charge requested with neither token nor customerId ends in
\* InvalidRequestError with nothing sent to the gateway and nothing stored.
C29_NoCredentialsNoRequest ==
    [][\A i \in 1..MaxConfirmReqs :
          ( /\ confirmReqs[i].pc = "charge"
            /\ confirmReqs[i].credentials = "none"
            /\ confirmReqs'[i] # confirmReqs[i] )
          => /\ UNCHANGED <<charges, refundCalls, payments, orders>>
             /\ confirmReqs'[i].pc = "done"
             /\ confirmReqs'[i].error.name = "InvalidRequestError"]_vars

\* C29 witness: a confirm for a payable order without credentials has ended
\* in InvalidRequestError and the gateway holds no charge.
C29_Witness ==
    \E i \in 1..MaxConfirmReqs :
        /\ confirmReqs[i].pc = "done"
        /\ confirmReqs[i].credentials = "none"
        /\ confirmReqs[i].orderId \in DOMAIN orders
        /\ confirmReqs[i].error.name = "InvalidRequestError"
        /\ charges = <<>>

\* C26: a failed device request inside startPayment ends the call with a
\* typed error and with no PaymentResult: TerminalOfflineError (retryable) for
\* ECONNREFUSED and ETIMEDOUT, TerminalTimeoutError (retryable) for
\* ECONNABORTED, TerminalError (not retryable) for every other failure; no
\* result is handed to the caller after a request that failed.
C26_FailuresAreTyped ==
    \A i \in 1..MaxTerminalReqs :
        LET r == terminalReqs[i] IN
        /\ (r.pc = "catch" /\ r.cause # "none")
               => /\ r.result = NoResult
                  /\ r.cause \in {"ECONNREFUSED", "ETIMEDOUT"}
                         => r.error = "TerminalOfflineError" /\ r.retryable
                  /\ r.cause = "ECONNABORTED"
                         => r.error = "TerminalTimeoutError" /\ r.retryable
                  /\ r.cause \notin {"ECONNREFUSED", "ETIMEDOUT", "ECONNABORTED"}
                         => r.error = "TerminalError" /\ ~r.retryable
        /\ r.pc = "then" => ~r.queryFailed

\* C27: the result the UTG driver returns is approved exactly when the
\* ResponseCode of the server's answer is '00'; a result that is not approved
\* carries the answer's ResponseMessage as error and its ResponseCode as
\* errorCode.
C27_UtgApprovedIffCode00 ==
    \A i \in 1..MaxTerminalReqs :
        (terminalReqs[i].pc = "then" /\ terminalReqs[i].type = "UTG")
        => /\ terminalReqs[i].result.approved <=> device[i].response_code = "00"
           /\ ~terminalReqs[i].result.approved
                  => /\ terminalReqs[i].result.error = device[i].response_message
                     /\ terminalReqs[i].result.errorCode = device[i].response_code

\* C27 witness: the UTG driver has returned the result of a transaction the
\* server answered with ResponseCode 'TO'.
C27_Witness ==
    \E i \in 1..MaxTerminalReqs :
        /\ terminalReqs[i].pc = "then"
        /\ terminalReqs[i].type = "UTG"
        /\ device[i].response_code = "TO"
        /\ ~terminalReqs[i].result.approved
        /\ terminalReqs[i].result.error = "TIMED OUT"
        /\ terminalReqs[i].result.errorCode = "TO"

\* C30: no step of the processing of a charge.dispute.created or
\* charge.dispute.closed event changes a payment or an order: the dispute is
\* stored in its own record.
C30_DisputeLeavesPayments ==
    [][\A e \in {"evt_dispute_created", "evt_dispute_closed"} :
          ( \/ CopiesIn(Task(e, "handle"), tasks') < CopiesIn(Task(e, "handle"), tasks)
            \/ CopiesIn(Task(e, "create"), tasks') < CopiesIn(Task(e, "create"), tasks) )
          => UNCHANGED <<payments, orders>>]_vars

\* C30 witness: a dispute of the captured charge was opened and closed as
\* won, both events are processed, and the payment is still CAPTURED.
C30_Witness ==
    /\ webhookEvents["evt_dispute_created"].processed
    /\ webhookEvents["evt_dispute_closed"].processed
    /\ Len(disputes) = 1
    /\ disputes[1].chargeId = payments[1].chargeId
    /\ disputes[1].status = "WON"
    /\ payments[1].status = "CAPTURED"

\* C31: a payout that is PAID stays PAID: processing payout.created for its id
\* after payout.paid does not return it to PENDING.
C31_PaidPayoutStaysPaid ==
    [][\A p \in PayoutIds : payouts[p] = "PAID" => payouts'[p] = "PAID"]_vars

\* C32: a payload without event id or without event type is answered 400 and
\* has no other effect: no event record is stored or changed, no delivery is
\* taken up, no processing run is started and no record of the store changes.
C32_MalformedPayloadRejected ==
    /\ [](invalidReqs.rejected = invalidReqs.received)
    /\ [][invalidReqs'.received # invalidReqs.received
             => /\ invalidReqs'.rejected = invalidReqs.rejected + 1
                /\ UNCHANGED <<storeVars, gatewayVars, webhookEvents, webhookReqs, tasks,
                               deliveries, acks, handlerRuns>>]_vars

\* C32 witness: two malformed payloads were answered 400 and no event is
\* stored, delivered or being processed.
C32_Witness ==
    /\ invalidReqs.received = 2
    /\ invalidReqs.rejected = 2
    /\ \A e \in EventIds : ~webhookEvents[e].stored /\ deliveries[e] = 0
    /\ tasks = EmptyBag

C34_PingSetsTerminalStatus ==
    /\ [][\A p \in 1..MaxPingReqs :
             /\ (pingReqs[p].pc = "ping" /\ pingReqs'[p] # pingReqs[p])
                    => /\ pingReqs'[p].pc = "update"
                       /\ pingReqs'[p].online <=> pingReqs'[p].error = "none"
             /\ (pingReqs[p].pc = "update" /\ pingReqs'[p] # pingReqs[p])
                    => /\ pingReqs'[p].pc = "done"
                       /\ pingReqs'[p].resp = 200
                       /\ terminals'[pingReqs[p].terminalId].status =
                              IF pingReqs[p].online THEN "ACTIVE" ELSE "OFFLINE"]_vars
    /\ [](\A t \in DOMAIN terminals :
            ( /\ \E p \in 1..MaxPingReqs :
                    /\ pingReqs[p].pc = "done"
                    /\ pingReqs[p].terminalId = t
                    /\ ~pingReqs[p].online
              /\ \A q \in 1..MaxPingReqs :
                    (pingReqs[q].pc = "done" /\ pingReqs[q].terminalId = t)
                    => ~pingReqs[q].online )
            => terminals[t].status = "OFFLINE")
    /\ [][\A i \in 1..MaxTerminalReqs :
             ( /\ terminalReqs[i].pc = "idle"
               /\ terminalReqs'[i].pc # "idle"
               /\ terminalReqs'[i].terminalId \in DOMAIN terminals
               /\ terminals[terminalReqs'[i].terminalId].status = "OFFLINE" )
             => /\ terminalReqs'[i].pc = "done"
                /\ terminalReqs'[i].resp = 400]_vars

\* C34 witness: a ping of terminal 1, which was in service, failed and was
\* answered 200 with an error message; the terminal is OFFLINE and a payment
\* requested on it was rejected with 400.
C34_Witness ==
    /\ pingReqs[1].pc = "done"
    /\ pingReqs[1].terminalId = 1
    /\ ~pingReqs[1].online
    /\ pingReqs[1].error # "none"
    /\ pingReqs[1].resp = 200
    /\ terminals[1].status = "OFFLINE"
    /\ terminalReqs[1].pc = "done"
    /\ terminalReqs[1].terminalId = 1
    /\ terminalReqs[1].resp = 400

\* C35: a confirm request that names an order that does not exist, or an
\* order whose status is neither DRAFT nor PENDING_PAYMENT, ends at once with
\* 404 or 400: no charge request goes to the gateway, no payment is created,
\* the order is unchanged, and the finished request does nothing afterwards.
C35_UnpayableOrderRejected ==
    /\ [][\A i \in 1..MaxConfirmReqs :
             ( /\ confirmReqs[i].pc = "idle"
               /\ confirmReqs'[i].pc # "idle"
               /\ \/ confirmReqs'[i].orderId \notin DOMAIN orders
                  \/ orders[confirmReqs'[i].orderId].status
                         \notin {"DRAFT", "PENDING_PAYMENT"} )
             => /\ confirmReqs'[i].pc = "done"
                /\ confirmReqs'[i].resp =
                       IF confirmReqs'[i].orderId \in DOMAIN orders THEN 400 ELSE 404
                /\ confirmReqs'[i].chargeId = 0
                /\ confirmReqs'[i].paymentId = 0
                /\ UNCHANGED <<orders, payments, charges>>]_vars
    /\ [][\A i \in 1..MaxConfirmReqs :
             confirmReqs[i].pc = "done" => confirmReqs'[i] = confirmReqs[i]]_vars

\* C35 witness: the first request paid order 1; the second, for the PAID
\* order, was rejected with 400; the order has one payment and the gateway saw one
\* charge.
C35_Witness ==
    /\ orders[1].status = "PAID"
    /\ confirmReqs[1].pc = "done"
    /\ confirmReqs[1].resp = 200
    /\ confirmReqs[2].pc = "done"
    /\ confirmReqs[2].orderId = 1
    /\ confirmReqs[2].resp = 400
    /\ confirmReqs[2].credentials = "token"
    /\ Cardinality(DOMAIN payments) = 1
    /\ Cardinality(DOMAIN charges) = 1

\* C36: whenever no confirm request, terminal payment or webhook task is in
\* flight, an order is PAID only if one of its payments is CAPTURED, and an
\* order with a CAPTURED payment is neither DRAFT nor PENDING_PAYMENT.
C36_PaidIffCaptured ==
    ( /\ \A i \in 1..MaxConfirmReqs : confirmReqs[i].pc \in {"idle", "done"}
      /\ \A i \in 1..MaxTerminalReqs : terminalReqs[i].pc \in {"idle", "done"}
      /\ tasks = EmptyBag )
    => \A o \in DOMAIN orders :
         LET captured == \E k \in DOMAIN payments :
                             /\ payments[k].orderId = o
                             /\ payments[k].status = "CAPTURED"
         IN /\ orders[o].status = "PAID" => captured
            /\ captured => orders[o].status \notin {"DRAFT", "PENDING_PAYMENT"}

\* C37: whenever no refund request and no webhook task is in flight, a
\* payment is REFUNDED only if its SUCCEEDED refunds add up to its amount, and
\* PARTIALLY_REFUNDED only if they add up to more than zero and less than its
\* amount.
C37_RefundStatusMatchesSum ==
    ( /\ \A i \in 1..MaxRefundReqs : refundReqs[i].pc \in {"idle", "done"}
      /\ tasks = EmptyBag )
    => \A p \in DOMAIN payments :
         LET sum == SumAmounts(SucceededRefunds(refunds, p))
         IN /\ payments[p].status = "REFUNDED" => sum = payments[p].amount
            /\ payments[p].status = "PARTIALLY_REFUNDED"
                   => (sum > 0 /\ sum < payments[p].amount)

CapturedPaymentsOfOrder(o) ==
    {k \in DOMAIN payments : payments[k].orderId = o /\ payments[k].status = "CAPTURED"}

\* C38: an order never has more than one CAPTURED payment; in particular a
\* terminal payment of an order that already has a CAPTURED payment does not
\* add a second one.
C38_OneCapturedPaymentPerOrder ==
    \A o \in DOMAIN orders : Cardinality(CapturedPaymentsOfOrder(o)) <= 1

\* C39: while the request to the device is out or the device is being
\* polled, the transaction reference the driver sent to the device is the
\* transactionId the route stored in the session and returned to the client.
C39_DeviceReferenceIsSessionId ==
    \A i \in 1..MaxTerminalReqs :
        terminalReqs[i].pc \in {"post", "poll"}
            => terminalReqs[i].referenceId = terminalReqs[i].transactionId

\* C40: a status request that has answered 'approved' returns the CAPTURED
\* payment of the session as its result, not null.
C40_ApprovedHasPayment ==
    \A k \in 1..MaxStatusReqs :
        ( /\ statusReqs[k].pc = "done"
          /\ statusReqs[k].resp = 200
          /\ statusReqs[k].status = "approved" )
        => /\ statusReqs[k].paymentId \in DOMAIN payments
           /\ payments[statusReqs[k].paymentId].status = "CAPTURED"
           /\ payments[statusReqs[k].paymentId].transactionId = statusReqs[k].transactionId

====
